---- MODULE Spec2Model ----
(***************************************************************************)
(* Verification model of the stratzscraper task-assignment scheduler.      *)
(*                                                                         *)
(* The repository holds three revisions of the scheduler side by side:     *)
(*   - the package revision: stratz_scraper/web/assignment.py,             *)
(*     submissions.py, tasks.py, seed.py over stratz_scraper/database.py   *)
(*     (PostgreSQL, READ COMMITTED, row locks, FOR UPDATE SKIP LOCKED);    *)
(*   - the web revision: stratz_scraper/web/app.py (SQLite, one writer);   *)
(*   - the legacy revision: app.py over database.py (SQLite).              *)
(* Each revision is modelled by its own actions over the same tables.      *)
(***************************************************************************)
EXTENDS Integers, FiniteSets, Sequences, TLC

\* ------------------------------------------------------------------ bounds
MaxId == 2
Seeded == 2
NumCalls == 3
MaxTime == 12
MaxDepth == 2
MaxJobs == 1
MaxTasks == 3
MaxSeen == 2
NumHeroes == 1
NumLow == 1
MaxMatches == 3
MaxWins == 1
MaxPayload == 1
BgMatches == 2
BgWins == 0
MaxAccounts == 6
MaxCatMatches == 2
MaxEntries == 2
MaxCount == 2

\* ------------------------------------------------------- program constants
MAX_HERO_TASK_SIZE == 5
MAX_DISCOVERY_TASK_SIZE == 5
REFRESH_INTERVAL == 11
DISCOVERY_INTERVAL == 199
DISCOVERY_BACKLOG_LIMIT == 100
\* release_incomplete_assignments(max_age_minutes=...), in minutes of the clock.
MAX_AGE_MINUTES == 10
\* ASSIGNMENT_CLEANUP_INTERVAL = timedelta(seconds=60), in minutes.
ASSIGNMENT_CLEANUP_INTERVAL == 1
LEGACY_MAX_AGE_MINUTES == 5

\* Rows per hero in hero_top100.
LEADERBOARD_SIZE == 100
\* Web revision: refresh_due = next_count % 10, discovery_due = next_count % 100.
WEB_REFRESH_INTERVAL == 10
WEB_DISCOVERY_INTERVAL == 100
\* Web revision: BACKGROUND_EXECUTOR = ThreadPoolExecutor(max_workers=2).
WEB_WORKERS == 2

\* SQL NULL of a numeric or timestamp column, and an absent meta key.
NULL == 0 - 99
\* SQL NULL of the text column assigned_to.
NULLTXT == "NULL"
\* An account id with no row in players.
NoRow == [absent |-> TRUE]

Ids == 1 .. MaxId
Calls == 1 .. NumCalls

VARIABLES
    players,    \* committed players table: Ids -> row or NoRow
    meta,       \* committed meta table: [counter, cursor, last_cleanup]
    now,        \* the clock (CURRENT_TIMESTAMP / NOW())
    txw,        \* per call: rows written and locked by its open transaction
    call,       \* per call: position and locals of _assign_next_task_on_connection
    jobs,       \* the background executor's queue of submitted jobs
    hero_stats, \* hero_stats table: set of [steamAccountId, heroId, matches, wins]
    hero_top100,\* hero_top100 table: set of [steamAccountId, heroId, matches, wins]
    schema,     \* columns of the deployed players table the code does not create
    lowest,     \* history: per account, the lowest depth it was stored or reported with
    op          \* history: the operation that produced this state and its inputs

vars == <<players, meta, now, txw, call, jobs, hero_stats, hero_top100,
          schema, lowest, op>>

\* What the concurrent assignment calls never touch.
seqVars == <<jobs, hero_stats, hero_top100, schema, lowest, op>>
\* The state of the concurrent assignment calls.
callVars == <<txw, call>>
\* The leaderboard tables.
boardVars == <<hero_stats, hero_top100>>

\* ------------------------------------------------------------ table helpers
Exists(tbl, i) == tbl[i] # NoRow

\* A row as seed_players / ensure_schema insert it.
SeedRow(d) ==
    [depth |-> d, assigned_to |-> NULLTXT, assigned_at |-> NULL,
     hero_refreshed_at |-> NULL, hero_done |-> FALSE, highest_match_id |-> NULL,
     discover_done |-> FALSE, full_write_done |-> FALSE, seen_count |-> 0]

\* The first n elements of S under the strict total order Before.
FirstN(S, n, Before(_, _)) ==
    {i \in S : Cardinality({j \in S : Before(j, i)}) < n}

Max(S) == CHOOSE x \in S : \A y \in S : y <= x
Min(S) == CHOOSE x \in S : \A y \in S : x <= y

\* History: the accounts of set S were reported at depth d.
LowerTo(low, S, d) ==
    [i \in Ids |-> IF i \in S /\ (low[i] = NULL \/ d < low[i]) THEN d ELSE low[i]]

\* int(row["value"]) if row else 0
MetaInt(v) == IF v = NULL THEN 0 ELSE v

\* ===================================================================
\* Package revision: stratz_scraper/web/assignment.py
\* ===================================================================
EmptyTx == [i \in {} |-> NoRow]

\* What a statement of call c reads: its own uncommitted writes over the
\* committed table (READ COMMITTED).
View(c) ==
    [i \in DOMAIN players |-> IF i \in DOMAIN txw[c] THEN txw[c][i] ELSE players[i]]

\* Variant: the claim statements without FOR UPDATE SKIP LOCKED.
LockedByNobody(c) == {}

\* Rows locked by open transactions other than c (skipped by SKIP LOCKED).
LockedByOther(c) == UNION {DOMAIN txw[d] : d \in Calls \ {c}}

NoTask == [type |-> "none", via |-> "none", ids |-> {}]

\* Variant: the throttle that starts one account later.
discovery_backlog_exceeded_late(v) ==
    Cardinality({i \in DOMAIN v : /\ Exists(v, i)
                             /\ v[i].discover_done
                             /\ ~v[i].full_write_done
                             /\ v[i].highest_match_id # NULL})
        > DISCOVERY_BACKLOG_LIMIT + 1

\* _discovery_backlog_exceeded: COUNT(*) of the awaited full writes > 100.
discovery_backlog_exceeded(v) ==
    Cardinality({i \in DOMAIN v : /\ Exists(v, i)
                             /\ v[i].discover_done
                             /\ ~v[i].full_write_done
                             /\ v[i].highest_match_id # NULL})
        > DISCOVERY_BACKLOG_LIMIT

\* ORDER BY depth ASC, steamAccountId ASC (NULL depths last).
DepthKey(d) == IF d = NULL THEN 1000000 ELSE d

\* Variant: the candidate CTE ordered by steamAccountId alone.
DiscoveryCandidatesById(v, locked) ==
    LET elig == {i \in DOMAIN v \ locked : /\ Exists(v, i)
                                      /\ v[i].hero_done
                                      /\ ~v[i].discover_done
                                      /\ v[i].assigned_to = NULLTXT}
        Before(j, i) == j < i
    IN  FirstN(elig, MAX_DISCOVERY_TASK_SIZE, Before)

\* The candidate CTE of _assign_discovery.
DiscoveryCandidates(v, locked) ==
    LET elig == {i \in DOMAIN v \ locked : /\ Exists(v, i)
                                      /\ v[i].hero_done
                                      /\ ~v[i].discover_done
                                      /\ v[i].assigned_to = NULLTXT}
        Before(j, i) == \/ DepthKey(v[j].depth) < DepthKey(v[i].depth)
                        \/ DepthKey(v[j].depth) = DepthKey(v[i].depth) /\ j < i
    IN  FirstN(elig, MAX_DISCOVERY_TASK_SIZE, Before)

\* Variant: the refresh statement ordered by hero_refreshed_at DESC.
RefreshCandidatesNewestFirst(v, locked) ==
    LET elig == {i \in DOMAIN v \ locked : /\ Exists(v, i)
                                      /\ v[i].hero_done
                                      /\ v[i].assigned_to = NULLTXT}
        Before(j, i) == \/ v[j].hero_refreshed_at > v[i].hero_refreshed_at
                        \/ v[j].hero_refreshed_at = v[i].hero_refreshed_at /\ j < i
    IN  FirstN(elig, MAX_HERO_TASK_SIZE, Before)

\* The candidate CTE of the refresh statement:
\* ORDER BY hero_refreshed_at ASC NULLS FIRST, steamAccountId ASC.
RefreshCandidates(v, locked) ==
    LET elig == {i \in DOMAIN v \ locked : /\ Exists(v, i)
                                      /\ v[i].hero_done
                                      /\ v[i].assigned_to = NULLTXT}
        Before(j, i) == \/ v[j].hero_refreshed_at < v[i].hero_refreshed_at
                        \/ v[j].hero_refreshed_at = v[i].hero_refreshed_at /\ j < i
    IN  FirstN(elig, MAX_HERO_TASK_SIZE, Before)

\* Variant: the hero claim statement reading rows whatever their lock.
HeroCandidatesNoSkip(v, locked, last_cursor) ==
    LET elig == {i \in DOMAIN v : /\ Exists(v, i)
                             /\ ~v[i].hero_done
                             /\ v[i].assigned_to = NULLTXT}
        Before(j, i) == j < i
        candidate == FirstN({i \in elig : i > last_cursor}, MAX_HERO_TASK_SIZE, Before)
        fallback == FirstN({i \in elig : i > 0}, MAX_HERO_TASK_SIZE, Before)
    IN  IF candidate # {} THEN candidate ELSE fallback

\* Variant: the hero claim statement without the cursor, always from id 0.
HeroCandidatesFromStart(v, locked, last_cursor) ==
    LET elig == {i \in DOMAIN v \ locked : /\ Exists(v, i)
                                      /\ ~v[i].hero_done
                                      /\ v[i].assigned_to = NULLTXT}
        Before(j, i) == j < i
    IN  FirstN({i \in elig : i > 0}, MAX_HERO_TASK_SIZE, Before)

\* Variant: the selected CTE without NOT EXISTS, the rows after the cursor
\* followed by the rows from the beginning.
HeroCandidatesMixed(v, locked, last_cursor) ==
    LET elig == {i \in DOMAIN v \ locked : /\ Exists(v, i)
                                      /\ ~v[i].hero_done
                                      /\ v[i].assigned_to = NULLTXT}
        Before(j, i) == j < i
        candidate == FirstN({i \in elig : i > last_cursor}, MAX_HERO_TASK_SIZE, Before)
        fallback == FirstN({i \in elig : i > 0}, MAX_HERO_TASK_SIZE, Before)
    IN  candidate \cup FirstN(fallback \ candidate,
                              MAX_HERO_TASK_SIZE - Cardinality(candidate), Before)

\* The candidate / fallback / selected CTEs of _assign_next_hero.
HeroCandidates(v, locked, last_cursor) ==
    LET elig == {i \in DOMAIN v \ locked : /\ Exists(v, i)
                                      /\ ~v[i].hero_done
                                      /\ v[i].assigned_to = NULLTXT}
        Before(j, i) == j < i
        candidate == FirstN({i \in elig : i > last_cursor}, MAX_HERO_TASK_SIZE, Before)
        fallback == FirstN({i \in elig : i > 0}, MAX_HERO_TASK_SIZE, Before)
    IN  IF candidate # {} THEN candidate ELSE fallback

\* UPDATE players SET assigned_to=kind, assigned_at=CURRENT_TIMESTAMP
\* WHERE steamAccountId IN sel AND assigned_to IS NULL: the rows written.
ClaimRows(v, sel, kind, t) ==
    [i \in {j \in sel : v[j].assigned_to = NULLTXT} |->
        [v[i] EXCEPT !.assigned_to = kind, !.assigned_at = t]]

\* Variant: a refresh claim that also re-opens discovery.
RefreshRowsReopening(v, sel, t) ==
    [i \in {j \in sel : v[j].assigned_to = NULLTXT /\ v[j].hero_done} |->
        [v[i] EXCEPT !.hero_done = FALSE, !.discover_done = FALSE,
                     !.assigned_to = "hero", !.assigned_at = t]]

\* The refresh UPDATE also sets hero_done=FALSE (WHERE hero_done=TRUE).
RefreshRows(v, sel, t) ==
    [i \in {j \in sel : v[j].assigned_to = NULLTXT /\ v[j].hero_done} |->
        [v[i] EXCEPT !.hero_done = FALSE, !.assigned_to = "hero", !.assigned_at = t]]

\* Variant: the discovery condition firing on the refresh interval.
discovery_due_on_refresh(next_count) == next_count % REFRESH_INTERVAL = 0

refresh_due(next_count) == next_count % REFRESH_INTERVAL = 0
discovery_due(next_count) == next_count % DISCOVERY_INTERVAL = 0

\* The first statement of a loop iteration that starts from loop_count n.
IterPc(n) ==
    IF discovery_due(n + 1) THEN "discovery"
    ELSE IF refresh_due(n + 1) THEN "refresh"
    ELSE "hero_read"

\* End of an iteration that found nothing: break on a due call, else go on.
EndIter(cr) ==
    IF refresh_due(cr.loop_count + 1) \/ discovery_due(cr.loop_count + 1)
    THEN [cr EXCEPT !.pc = "done"]
    ELSE [cr EXCEPT !.loop_count = cr.loop_count + 1,
                    !.pc = IterPc(cr.loop_count + 1)]

\* loop_count = next_count; continue
Continue(cr) ==
    [cr EXCEPT !.loop_count = cr.loop_count + 1, !.pc = IterPc(cr.loop_count + 1)]

Merge(tbl, w) == [i \in DOMAIN tbl |-> IF i \in DOMAIN w THEN w[i] ELSE tbl[i]]

\* _increment_assignment_counter: INSERT '1' ON CONFLICT value = value + 1.
increment_assignment_counter(m) ==
    [m EXCEPT !.counter = IF m.counter = NULL THEN 1 ELSE m.counter + 1]

\* SELECT value FROM meta WHERE key='task_assignment_counter'.
Start(c) ==
    /\ call[c].pc = "idle"
    /\ call' = [call EXCEPT ![c] = [@ EXCEPT !.loop_count = MetaInt(meta.counter),
                                             !.pc = IterPc(MetaInt(meta.counter))]]
    /\ UNCHANGED <<players, meta, now, txw, seqVars>>

\* discovery_due: _assign_discovery, then _restart_discovery_cycle on None.
\* The restart reads cur.fetchone()[0] from a dict_row cursor: KeyError, the
\* transaction is rolled back by db_connection and the call fails.
DiscoveryDue(c) ==
    /\ call[c].pc = "discovery"
    /\ LET v == View(c)
           sel == DiscoveryCandidates(v, LockedByOther(c))
           w == ClaimRows(v, sel, "discover", now)
       IN  IF discovery_backlog_exceeded(v)
           THEN /\ call' = [call EXCEPT ![c] = Continue(@)]
                /\ txw' = txw
           ELSE IF DOMAIN w # {}
           THEN /\ call' = [call EXCEPT ![c] =
                        [@ EXCEPT !.pc = "finish",
                                  !.task = [type |-> "discover_matches",
                                            via |-> "discover", ids |-> DOMAIN w]]]
                /\ txw' = [txw EXCEPT ![c] = w]
           ELSE /\ call' = [call EXCEPT ![c] = [@ EXCEPT !.pc = "failed"]]
                /\ txw' = [txw EXCEPT ![c] = EmptyTx]
    /\ UNCHANGED <<players, meta, now, seqVars>>

\* refresh_due: the refresh claim statement.
Refresh(c) ==
    /\ call[c].pc = "refresh"
    /\ LET v == View(c)
           w == RefreshRows(v, RefreshCandidates(v, LockedByOther(c)), now)
       IN  IF DOMAIN w # {}
           THEN /\ call' = [call EXCEPT ![c] =
                        [@ EXCEPT !.pc = "finish",
                                  !.task = [type |-> "fetch_hero_stats",
                                            via |-> "refresh", ids |-> DOMAIN w]]]
                /\ txw' = [txw EXCEPT ![c] = w]
           ELSE /\ call' = [call EXCEPT ![c] = [@ EXCEPT !.pc = "hero_read"]]
                /\ txw' = txw
    /\ UNCHANGED <<players, meta, now, seqVars>>

\* _assign_next_hero: SELECT value FROM meta WHERE key='hero_assignment_cursor'.
HeroRead(c) ==
    /\ call[c].pc = "hero_read"
    /\ call' = [call EXCEPT ![c] = [@ EXCEPT !.last_cursor = MetaInt(meta.cursor),
                                             !.pc = "hero_try1"]]
    /\ UNCHANGED <<players, meta, now, txw, seqVars>>

\* _assign_next_hero: one of the two runs of the claim statement.
HeroTry(c) ==
    /\ call[c].pc \in {"hero_try1", "hero_try2"}
    /\ LET v == View(c)
           w == ClaimRows(v, HeroCandidates(v, LockedByOther(c), call[c].last_cursor),
                          "hero", now)
       IN  IF DOMAIN w # {}
           THEN /\ call' = [call EXCEPT ![c] =
                        [@ EXCEPT !.pc = "finish",
                                  !.task = [type |-> "fetch_hero_stats",
                                            via |-> "hero", ids |-> DOMAIN w]]]
                /\ txw' = [txw EXCEPT ![c] = w]
           ELSE /\ call' = [call EXCEPT ![c] =
                        [@ EXCEPT !.pc = IF @ = "hero_try1" THEN "hero_try2"
                                         ELSE "pending"]]
                /\ txw' = txw
    /\ UNCHANGED <<players, meta, now, seqVars>>

\* SELECT 1 FROM players WHERE hero_done=FALSE AND assigned_to IS NULL LIMIT 1
HeroPending(c) ==
    /\ call[c].pc = "pending"
    /\ LET v == View(c)
           hero_pending == \E i \in DOMAIN v : /\ Exists(v, i)
                                               /\ ~v[i].hero_done
                                               /\ v[i].assigned_to = NULLTXT
       IN  call' = [call EXCEPT ![c] =
                IF ~hero_pending /\ ~discovery_due(@.loop_count + 1)
                THEN [@ EXCEPT !.pc = "fallback"]
                ELSE EndIter(@)]
    /\ UNCHANGED <<players, meta, now, txw, seqVars>>

\* The fallback _assign_discovery of a call that is not discovery-due.
Fallback(c) ==
    /\ call[c].pc = "fallback"
    /\ LET v == View(c)
           w == ClaimRows(v, DiscoveryCandidates(v, LockedByOther(c)), "discover", now)
       IN  IF discovery_backlog_exceeded(v)
           THEN /\ call' = [call EXCEPT ![c] = Continue(@)]
                /\ txw' = txw
           ELSE IF DOMAIN w # {}
           THEN /\ call' = [call EXCEPT ![c] =
                        [@ EXCEPT !.pc = "finish",
                                  !.task = [type |-> "discover_matches",
                                            via |-> "discover", ids |-> DOMAIN w]]]
                /\ txw' = [txw EXCEPT ![c] = w]
           ELSE /\ call' = [call EXCEPT ![c] = EndIter(@)]
                /\ txw' = txw
    /\ UNCHANGED <<players, meta, now, seqVars>>

\* After a claim: the cursor upsert of _assign_next_hero, the counter
\* increment and the commit of db_connection.  The two meta upserts wait for
\* the row lock of a concurrent writer, which is held until that writer's
\* commit, so the three steps are one step here.
Finish(c) ==
    /\ call[c].pc = "finish"
    /\ players' = Merge(players, txw[c])
    /\ meta' = increment_assignment_counter(
                  IF call[c].task.via = "hero"
                  THEN [meta EXCEPT !.cursor = Max(call[c].task.ids)]
                  ELSE meta)
    /\ txw' = [txw EXCEPT ![c] = EmptyTx]
    /\ call' = [call EXCEPT ![c] = [@ EXCEPT !.pc = "done"]]
    /\ UNCHANGED <<now, seqVars>>

\* The positions whose statement runs through retryable_execute.
RetryablePcs ==
    {"discovery", "refresh", "hero_read", "hero_try1", "hero_try2", "fallback",
     "finish"}

\* retryable_execute on the cursor of the call's transaction: the statement
\* raises a deadlock, serialization or lock-not-available error, which ends
\* the transaction on the server; retryable_execute sleeps and executes the
\* statement again on the same cursor without a rollback, the server answers
\* that the transaction is aborted, and that error, not a retryable one, is
\* raised to the caller; db_connection rolls back.
TransientError(c) ==
    /\ call[c].pc \in RetryablePcs
    /\ call' = [call EXCEPT ![c] = [@ EXCEPT !.pc = "aborted", !.task = NoTask]]
    /\ txw' = [txw EXCEPT ![c] = EmptyTx]
    /\ UNCHANGED <<players, meta, now, seqVars>>

IdleCall == [pc |-> "idle", loop_count |-> 0, last_cursor |-> 0, task |-> NoTask]

\* Counter values the calls start from: just before a refresh-due call, and
\* just before the refresh-due call that precedes a discovery-due one.
CounterStarts == {9, 197}

\* A row whose hero stats were collected at time 0.
HeroDoneRow(d) == [SeedRow(d) EXCEPT !.hero_done = TRUE, !.hero_refreshed_at = 0]

NoOp == [name |-> "init"]

\* The depths the rows of a store were created with.
LowestOf(tbl) == [i \in Ids |-> IF Exists(tbl, i) THEN tbl[i].depth ELSE NULL]

\* The deployed players table has the seen_count column (ensure_schema does
\* not create it; process_discover_submission writes it).
Schemas == {[seen_count |-> b] : b \in BOOLEAN}

InitAssign ==
    /\ players \in {[i \in Ids |-> IF i <= Seeded THEN f[i] ELSE NoRow] :
                        f \in [1 .. Seeded -> {SeedRow(0), HeroDoneRow(0)}]}
    /\ op = NoOp
    /\ jobs = <<>>
    /\ hero_stats = {}
    /\ hero_top100 = {}
    /\ schema = [seen_count |-> TRUE]
    /\ lowest = LowestOf(players)
    /\ meta \in {[counter |-> n, cursor |-> NULL, last_cleanup |-> NULL] :
                    n \in CounterStarts}
    /\ now = 1
    /\ txw = [c \in Calls |-> EmptyTx]
    /\ call = [c \in Calls |-> IdleCall]

NextAssign ==
    \E c \in Calls :
        \/ Start(c)
        \/ DiscoveryDue(c)
        \/ Refresh(c)
        \/ HeroRead(c)
        \/ HeroTry(c)
        \/ HeroPending(c)
        \/ Fallback(c)
        \/ Finish(c)
        \/ TransientError(c)

SpecAssign == InitAssign /\ [][NextAssign]_vars

\* ------------------------------------------------ claims on SpecAssign
\* Calls that have claimed rows (committed or not) and the calls that ended.
Successful == {c \in Calls : call[c].task.ids # {}}
AllDone == \A c \in Calls : call[c].pc \in {"done", "failed", "aborted"}
ExistingIds == {i \in Ids : Exists(players, i)}

\* The store holds only rows as seeded, claimed or not: every account was
\* claimable for hero stats when the calls started and nothing but hero claims
\* happened since.
AllSeeded ==
    \A i \in ExistingIds :
        [players[i] EXCEPT !.assigned_to = NULLTXT, !.assigned_at = NULL] = SeedRow(0)

\* C1: mutual exclusion of concurrent RequestTask calls: no account id is in
\* the id sets claimed by two different calls, whatever the interleaving of
\* their statements.
C1_MutualExclusion ==
    \A c \in Calls : \A d \in Calls \ {c} :
        call[c].task.ids \cap call[d].task.ids = {}

\* Two calls ran concurrently and both returned a task.
C1_Witness ==
    \E c \in Calls : \E d \in Calls \ {c} :
        /\ call[c].pc = "done" /\ call[c].task.ids # {}
        /\ call[d].pc = "done" /\ call[d].task.ids # {}

C11_EndsWithTaskOrNoTask ==
    \A c \in Calls :
        /\ call[c].pc # "failed"
        /\ call[c].loop_count <= MetaInt(meta.counter) + 2 * REFRESH_INTERVAL

\* C19: a transient contention error (deadlock, serialization failure, lock
\* not available) on a statement of RequestTask is retried until the
\* statement succeeds and never ends the call with an error.
C19_TransientNeverSurfaces ==
    \A c \in Calls : call[c].pc # "aborted"

\* The other half of C19: a call that ends with an error has assigned no
\* task and has committed no claim: its transaction is rolled back and the
\* committed claims are those of the calls that returned a task.
FailedCallCommitsNothing ==
    /\ \A c \in Calls :
          call[c].pc \in {"failed", "aborted"} =>
              call[c].task = NoTask /\ txw[c] = EmptyTx
    /\ \A i \in Ids :
          (Exists(players, i) /\ players[i].assigned_to # NULLTXT) =>
              \E c \in Calls : call[c].pc = "done" /\ i \in call[c].task.ids

\* ===================================================================
\* Package revision, one operation at a time: the reclaimer, the clock,
\* whole assignment calls and the background jobs of submissions.py.
\* The clock counts minutes.
\* ===================================================================

\* Variant: the age comparison of the reclaimer reversed.
release_fresh_assignments(tbl, max_age, t) ==
    [i \in DOMAIN tbl |->
        IF /\ Exists(tbl, i)
           /\ tbl[i].assigned_to # NULLTXT
           /\ (tbl[i].assigned_at = NULL \/ tbl[i].assigned_at >= t - max_age)
        THEN [tbl[i] EXCEPT !.assigned_to = NULLTXT, !.assigned_at = NULL]
        ELSE tbl[i]]

\* Variant: a reclaimer that also takes back the completion of a refresh.
release_and_unmark(tbl, max_age, t) ==
    [i \in DOMAIN tbl |->
        IF /\ Exists(tbl, i)
           /\ tbl[i].assigned_to # NULLTXT
           /\ (tbl[i].assigned_at = NULL \/ tbl[i].assigned_at <= t - max_age)
        THEN [tbl[i] EXCEPT !.assigned_to = NULLTXT, !.assigned_at = NULL,
                            !.hero_done = FALSE, !.hero_refreshed_at = NULL]
        ELSE tbl[i]]

\* UPDATE players SET assigned_to=NULL, assigned_at=NULL
\* WHERE assigned_to IS NOT NULL
\*   AND (assigned_at IS NULL OR assigned_at <= NOW() - max_age minutes)
release_incomplete_assignments(tbl, max_age, t) ==
    [i \in DOMAIN tbl |->
        IF /\ Exists(tbl, i)
           /\ tbl[i].assigned_to # NULLTXT
           /\ (tbl[i].assigned_at = NULL \/ tbl[i].assigned_at <= t - max_age)
        THEN [tbl[i] EXCEPT !.assigned_to = NULLTXT, !.assigned_at = NULL]
        ELSE tbl[i]]

\* The default timeouts of the two release_incomplete_assignments.
ReleaseAges == {MAX_AGE_MINUTES, LEGACY_MAX_AGE_MINUTES}

\* History of a reclaim pass: the rows it cleared, with the assigned_at they had.
ReleasedBy(tbl, after) ==
    {<<i, tbl[i].assigned_at>> :
        i \in {j \in Ids : /\ Exists(tbl, j)
                            /\ tbl[j].assigned_to # NULLTXT
                            /\ after[j].assigned_to = NULLTXT}}

\* The clock advances by a minute.
Tick ==
    /\ now < MaxTime
    /\ now' = now + 1
    /\ op' = [name |-> "tick"]
    /\ UNCHANGED <<players, meta, callVars, jobs, boardVars, schema, lowest>>

\* release_incomplete_assignments() on its own connection, as run at start-up.
Release ==
    \E max_age \in ReleaseAges :
        /\ players' = release_incomplete_assignments(players, max_age, now)
        /\ op' = [name |-> "release", max_age |-> max_age,
                  released |-> ReleasedBy(players, players')]
        /\ UNCHANGED <<meta, now, callVars, jobs, boardVars, schema, lowest>>

\* maybe_run_assignment_cleanup: [ran, players, meta].
maybe_run_assignment_cleanup(tbl, m, t) ==
    IF m.last_cleanup # NULL /\ t - m.last_cleanup < ASSIGNMENT_CLEANUP_INTERVAL
    THEN [ran |-> FALSE, players |-> tbl, meta |-> m]
    ELSE [ran |-> TRUE,
          players |-> release_incomplete_assignments(tbl, MAX_AGE_MINUTES, t),
          meta |-> [m EXCEPT !.last_cleanup = t]]

\* One round of _cleanup_worker.
Cleanup ==
    \E r \in {maybe_run_assignment_cleanup(players, meta, now)} :
        /\ players' = r.players
        /\ meta' = r.meta
        /\ op' = IF r.ran THEN [name |-> "release", max_age |-> MAX_AGE_MINUTES,
                                 released |-> ReleasedBy(players, r.players)]
                 ELSE [name |-> "cleanup_skipped"]
        /\ UNCHANGED <<now, callVars, jobs, boardVars, schema, lowest>>


\* _assign_discovery with no other transaction open and the backlog below
\* its limit, as [players, ids]: the claim statement, then account 0 is marked
\* done and left out of the task; a claim of account 0 alone ends, after the
\* recursive call has found nothing more, with no task (ids = {}).
assign_discovery(tbl, t) ==
    LET claimed == ClaimRows(tbl, DiscoveryCandidates(tbl, {}), "discover", t)
        w == [i \in DOMAIN claimed |->
                 IF i = 0
                 THEN [claimed[i] EXCEPT !.discover_done = TRUE,
                                         !.full_write_done = TRUE]
                 ELSE claimed[i]]
    IN  [players |-> Merge(tbl, w), ids |-> DOMAIN claimed \ {0}]

\* _assign_next_task_on_connection with no other transaction open: the loop
\* from loop_count on, as [players, meta, task, failed].
RECURSIVE AssignLoop(_, _, _, _)
AssignLoop(tbl, m, loop_count, t) ==
    LET next_count == loop_count + 1
        disc == assign_discovery(tbl, t)
        refr == RefreshRows(tbl, RefreshCandidates(tbl, {}), t)
        hero == ClaimRows(tbl, HeroCandidates(tbl, {}, MetaInt(m.cursor)), "hero", t)
        hero_pending == \E i \in DOMAIN tbl : /\ Exists(tbl, i)
                                       /\ ~tbl[i].hero_done
                                       /\ tbl[i].assigned_to = NULLTXT
        Given(tbl2, ids, type, via, m2) ==
            [players |-> tbl2, meta |-> increment_assignment_counter(m2),
             task |-> [type |-> type, via |-> via, ids |-> ids],
             failed |-> FALSE]
        Nothing(tbl2) ==
            [players |-> tbl2, meta |-> m, task |-> NoTask, failed |-> FALSE]
        Break(tbl2) == IF refresh_due(next_count) \/ discovery_due(next_count)
                       THEN Nothing(tbl2)
                       ELSE AssignLoop(tbl2, m, next_count, t)
    IN  IF discovery_due(next_count)
        THEN IF discovery_backlog_exceeded(tbl)
             THEN AssignLoop(tbl, m, next_count, t)
             ELSE IF disc.ids # {}
             THEN Given(disc.players, disc.ids, "discover_matches", "discover", m)
             ELSE [Nothing(disc.players) EXCEPT !.failed = TRUE]
        ELSE IF refresh_due(next_count) /\ DOMAIN refr # {}
        THEN Given(Merge(tbl, refr), DOMAIN refr, "fetch_hero_stats", "refresh", m)
        ELSE IF DOMAIN hero # {}
        THEN Given(Merge(tbl, hero), DOMAIN hero, "fetch_hero_stats", "hero",
                   [m EXCEPT !.cursor = Max(DOMAIN hero)])
        ELSE IF ~hero_pending
        THEN IF discovery_backlog_exceeded(tbl)
             THEN AssignLoop(tbl, m, next_count, t)
             ELSE IF disc.ids # {}
             THEN Given(disc.players, disc.ids, "discover_matches", "discover", m)
             ELSE Break(disc.players)
        ELSE Break(tbl)

\* assign_next_task(run_cleanup=...) on a managed connection; a failed call
\* is rolled back as a whole.
assign_next_task(tbl, m, t, run_cleanup) ==
    LET c == IF run_cleanup THEN maybe_run_assignment_cleanup(tbl, m, t)
             ELSE [ran |-> FALSE, players |-> tbl, meta |-> m]
        r == AssignLoop(c.players, c.meta, MetaInt(c.meta.counter), t)
    IN  IF r.failed
        THEN [players |-> tbl, meta |-> m, task |-> NoTask, failed |-> TRUE]
        ELSE r

\* A whole RequestTask call.
Assign ==
    \E run_cleanup \in BOOLEAN :
        \E r \in {assign_next_task(players, meta, now, run_cleanup)} :
            /\ players' = r.players
            /\ meta' = r.meta
            /\ op' = [name |-> "assign", task |-> r.task, failed |-> r.failed]
            /\ UNCHANGED <<now, callVars, jobs, boardVars, schema, lowest>>

\* One round of _cleanup_worker in which a statement of the reclaim pass
\* raises: db_connection rolls back, the worker logs the exception and waits
\* for its next round.
CleanupFails ==
    /\ op' = [name |-> "cleanup_failed"]
    /\ UNCHANGED <<players, meta, now, callVars, jobs, boardVars, schema, lowest>>

\* A RequestTask call with run_cleanup=True in which a statement of the
\* reclaim pass raises: maybe_run_assignment_cleanup is called outside any
\* try, so the exception leaves _assign_next_task_on_connection before the
\* loop starts; db_connection rolls back and raises.
AssignCleanupFails ==
    /\ op' = [name |-> "assign_error", cause |-> "cleanup"]
    /\ UNCHANGED <<players, meta, now, callVars, jobs, boardVars, schema, lowest>>

InitReclaim ==
    /\ players \in {[i \in Ids |-> IF i <= Seeded THEN f[i] ELSE NoRow] :
                        f \in [1 .. Seeded -> {SeedRow(0), HeroDoneRow(0)}]}
    /\ meta = [counter |-> NULL, cursor |-> NULL, last_cleanup |-> NULL]
    /\ now = 0
    /\ txw = [c \in Calls |-> EmptyTx]
    /\ call = [c \in Calls |-> IdleCall]
    /\ jobs = <<>>
    /\ hero_stats = {}
    /\ hero_top100 = {}
    /\ schema = [seen_count |-> TRUE]
    /\ lowest = LowestOf(players)
    /\ op = NoOp

NextReclaim ==
    Tick \/ Release \/ Cleanup \/ Assign \/ CleanupFails \/ AssignCleanupFails

SpecReclaim == InitReclaim /\ [][NextReclaim]_vars


\* ------------------------------------------------ claims on SpecReclaim
\* A claimed row that qualifies as stale for timeout max_age at time t.
Stale(row, max_age, t) ==
    /\ row.assigned_to # NULLTXT
    /\ (row.assigned_at = NULL \/ row.assigned_at <= t - max_age)

\* C4: a reclaim pass with timeout T clears assigned_to and assigned_at of
\* every claimed account whose assigned_at is now - (T+1), and leaves the
\* claim of every account whose assigned_at is now - (T-1) as it was.
C4_ReclaimBoundary ==
    [][op'.name = "release" =>
        \A i \in Ids :
            (Exists(players, i) /\ players[i].assigned_to # NULLTXT) =>
                /\ players[i].assigned_at = now - (op'.max_age + 1)
                      => /\ players'[i].assigned_to = NULLTXT
                         /\ players'[i].assigned_at = NULL
                /\ players[i].assigned_at = now - (op'.max_age - 1)
                      => /\ players'[i].assigned_to = players[i].assigned_to
                         /\ players'[i].assigned_at = players[i].assigned_at]_vars

\* A pass has just cleared a claim made T+1 minutes ago and kept one made
\* T-1 minutes ago.
C4_Witness ==
    /\ op.name = "release"
    /\ \E r \in op.released : r[2] = now - (op.max_age + 1)
    /\ \E i \in Ids : /\ Exists(players, i)
                      /\ players[i].assigned_to # NULLTXT
                      /\ players[i].assigned_at = now - (op.max_age - 1)

\* C20: the reclaimer is never fatal: a failure of a reclaim pass is caught
\* and logged on every path, so no RequestTask call ends with the error of
\* its reclaim pass instead of going on to assign.
C20_ReclaimNeverFatal == op.name # "assign_error"

\* The worker half of C20: a failed round of the cleanup worker changes
\* nothing, and the round after it runs the pass as any other round does.
WorkerFailureContained ==
    [][(op.name = "cleanup_failed" /\ op'.name \in {"release", "cleanup_skipped"}) =>
        /\ players' = maybe_run_assignment_cleanup(players, meta, now).players
           \/ \E max_age \in ReleaseAges :
                 players' = release_incomplete_assignments(players, max_age, now)
        /\ op'.name = "release" =>
              \A r \in op'.released : Stale(players[r[1]], op'.max_age, now)]_vars

\* C5: a reclaim pass changes nothing but assigned_to and assigned_at, and
\* only on stale accounts: every other attribute of every account, every
\* account that is not stale, and the hero tables stay as they were.
C5_ReclaimFrame ==
    [][op'.name = "release" =>
        /\ \A i \in Ids :
              \/ players'[i] = players[i]
              \/ /\ Exists(players, i)
                 /\ Stale(players[i], op'.max_age, now)
                 /\ players'[i] = [players[i] EXCEPT !.assigned_to = NULLTXT,
                                                     !.assigned_at = NULL]
        /\ hero_stats' = hero_stats
        /\ hero_top100' = hero_top100]_vars

\* A pass has just released a discovery claim of an account whose hero stats
\* are complete, while another account is still claimed.
C5_Witness ==
    /\ op.name = "release"
    /\ \E r \in op.released : /\ players[r[1]].hero_done
                              /\ players[r[1]].hero_refreshed_at # NULL
    /\ \E i \in Ids : Exists(players, i) /\ players[i].assigned_to # NULLTXT


\* ===================================================================
\* Package revision: the assignment policy, one call after another on
\* stores of MaxAccounts accounts (more than one task holds) and account 0,
\* the id the claim statements treat apart.
\* ===================================================================
Accounts == 0 .. MaxAccounts

\* A row whose hero stats are complete, last refreshed at t (NULL: never).
RefreshedRow(t) == [SeedRow(0) EXCEPT !.hero_done = TRUE, !.hero_refreshed_at = t]

PolicyRows == {SeedRow(0), RefreshedRow(NULL), RefreshedRow(0), RefreshedRow(1)}

\* Counter values: two calls and one call before a refresh-due call.
PolicyCounters == {9, 10}

\* hero_assignment_cursor: absent, or left at account 2 by an earlier claim.
PolicyCursors == {NULL, 2}

InitPolicy ==
    /\ players \in {f \in [Accounts -> PolicyRows \cup {NoRow}] :
                       /\ f[0] \in {NoRow, RefreshedRow(0)}
                       /\ \A i \in Accounts \ {0} : f[i] # NoRow}
    /\ meta \in {[counter |-> n, cursor |-> k, last_cleanup |-> NULL] :
                    n \in PolicyCounters, k \in PolicyCursors}
    /\ now = 2
    /\ txw = [c \in Calls |-> EmptyTx]
    /\ call = [c \in Calls |-> IdleCall]
    /\ jobs = <<>>
    /\ hero_stats = {}
    /\ hero_top100 = {}
    /\ schema = [seen_count |-> TRUE]
    /\ lowest = LowestOf(players)
    /\ op = NoOp

NextPolicy == Assign

SpecPolicy == InitPolicy /\ [][NextPolicy]_vars

\* ------------------------------------------------ claims on SpecPolicy
\* The call that starts now is refresh-due (and not discovery-due).
RefreshDueCall ==
    /\ refresh_due(MetaInt(meta.counter) + 1)
    /\ ~discovery_due(MetaInt(meta.counter) + 1)

\* The call that starts now is neither refresh-due nor discovery-due.
NonDueCall ==
    /\ ~refresh_due(MetaInt(meta.counter) + 1)
    /\ ~discovery_due(MetaInt(meta.counter) + 1)

\* Unclaimed accounts whose hero stats are complete.
Refreshable(tbl) ==
    {i \in DOMAIN tbl : /\ Exists(tbl, i)
                        /\ tbl[i].hero_done
                        /\ tbl[i].assigned_to = NULLTXT}

\* Unclaimed accounts whose hero stats are incomplete.
HeroPendingIds(tbl) ==
    {i \in DOMAIN tbl : /\ Exists(tbl, i)
                        /\ ~tbl[i].hero_done
                        /\ tbl[i].assigned_to = NULLTXT}

\* The refreshable account refreshed longest ago: never-refreshed first,
\* ties by lowest id.
Oldest(tbl) ==
    CHOOSE i \in Refreshable(tbl) :
        \A j \in Refreshable(tbl) \ {i} :
            \/ tbl[i].hero_refreshed_at = NULL /\ tbl[j].hero_refreshed_at # NULL
            \/ /\ tbl[i].hero_refreshed_at # NULL
               /\ tbl[j].hero_refreshed_at # NULL
               /\ tbl[i].hero_refreshed_at < tbl[j].hero_refreshed_at
            \/ tbl[i].hero_refreshed_at = tbl[j].hero_refreshed_at /\ i < j

\* C12: on a refresh-due call, the unclaimed account with complete hero stats
\* and the oldest refresh time (never-refreshed first, ties by lowest id) is
\* returned in a hero-stat collection task, its hero_done flag is flipped to
\* false and it becomes claimed.
C12_RefreshOldest ==
    [][(op'.name = "assign" /\ RefreshDueCall /\ Refreshable(players) # {}) =>
        /\ ~op'.failed
        /\ op'.task.type = "fetch_hero_stats"
        /\ Oldest(players) \in op'.task.ids
        /\ ~players'[Oldest(players)].hero_done
        /\ players'[Oldest(players)].assigned_to = "hero"
        /\ players'[Oldest(players)].assigned_at = now]_vars

\* A refresh claim has just taken a never-refreshed account and a refreshed
\* one, and left unclaimed an account refreshed later than every one it took.
C12_Witness ==
    /\ op.name = "assign"
    /\ op.task.via = "refresh"
    /\ \E i \in op.task.ids : players[i].hero_refreshed_at = NULL
    /\ \E i \in op.task.ids : players[i].hero_refreshed_at # NULL
    /\ \E k \in Refreshable(players) :
          \A i \in op.task.ids :
              players[i].hero_refreshed_at < players[k].hero_refreshed_at

PkgCounterCountsTasks ==
    [][(op'.name = "assign" /\ op'.task.ids # {}) =>
        /\ MetaInt(meta'.counter) = MetaInt(meta.counter) + 1
        /\ op'.task.via = "hero" => meta'.cursor = Max(op'.task.ids)
        /\ op'.task.via # "hero" => meta'.cursor = meta.cursor]_vars

\* C33: the persisted counter after a call that returns a task is the
\* value whose residues decided the task, the next_count of the loop
\* iteration that claimed it: every value the loop of the call stepped over
\* is counted in the persisted counter.
C33_CounterIsDecidingValue ==
    [][\A c \in Calls :
          (call[c].pc = "finish" /\ call'[c].pc = "done") =>
              MetaInt(meta'.counter) = call[c].loop_count + 1]_vars

\* The same for calls that run one after the other: a task claimed on the
\* refresh path leaves a persisted counter on which the refresh interval
\* fires.
RefreshLeavesDueCounter ==
    [][(op'.name = "assign" /\ op'.task.via = "refresh") =>
           refresh_due(MetaInt(meta'.counter))]_vars

\* C29: out-of-interval discovery only when hero collection is finished
\* everywhere: a call on which the discovery interval did not fire returns a
\* discover_matches task only if no account of the store is hero-incomplete,
\* claimed or not.
C29_FallbackOnlyWhenHeroDone ==
    [][(op'.name = "assign" /\ op'.task.type = "discover_matches"
            /\ ~discovery_due(MetaInt(meta.counter) + 1)) =>
        \A i \in Accounts : Exists(players, i) => players[i].hero_done]_vars

\* What the package revision guarantees: such a call returns a discovery
\* task only if no unclaimed account is hero-incomplete.
PkgFallbackOnlyWhenNonePending ==
    [][(op'.name = "assign" /\ op'.task.type = "discover_matches"
            /\ ~discovery_due(MetaInt(meta.counter) + 1)) =>
        HeroPendingIds(players) = {}]_vars

\* C17: a RequestTask call that returns no task leaves the store as it was:
\* no claim, flag or depth of any account is written and neither the counter
\* nor the cursor moves.
C17_NoTaskNoWrite ==
    [][(op'.name = "assign" /\ op'.task = NoTask) =>
        /\ players' = players
        /\ meta'.counter = meta.counter
        /\ meta'.cursor = meta.cursor]_vars

\* ===================================================================
\* Web revision: stratz_scraper/web/app.py (SQLite: one write transaction
\* at a time, so every handler and every background job is one step).
\* ===================================================================

\* COALESCE(depth, 0)
WebDepthKey(d) == IF d = NULL THEN 0 ELSE d

\* COALESCE(hero_refreshed_at, '1970-01-01'): before every time of the clock.
WebRefreshKey(x) == IF x = NULL THEN 0 - 1 ELSE x

\* One statement of assign_discovery: the first candidate whose assigned_to
\* is held (NULL in the first statement, 'discover' in the second), claimed.
WebDiscoveryClaim(tbl, held, t) ==
    LET elig == {i \in Ids : /\ Exists(tbl, i)
                             /\ tbl[i].hero_done
                             /\ ~tbl[i].discover_done
                             /\ tbl[i].assigned_to = held}
        Before(j, i) == \/ WebDepthKey(tbl[j].depth) < WebDepthKey(tbl[i].depth)
                        \/ /\ WebDepthKey(tbl[j].depth) = WebDepthKey(tbl[i].depth)
                           /\ j < i
    IN  [i \in FirstN(elig, 1, Before) |->
            [tbl[i] EXCEPT !.assigned_to = "discover", !.assigned_at = t]]

\* assign_discovery: the rows written and, of them, those that were claimed
\* already when the statement ran.
web_assign_discovery(tbl, t) ==
    LET w1 == WebDiscoveryClaim(tbl, NULLTXT, t)
        w2 == WebDiscoveryClaim(tbl, "discover", t)
    IN  IF DOMAIN w1 # {} THEN [w |-> w1, reclaimed |-> {}]
        ELSE [w |-> w2, reclaimed |-> DOMAIN w2]

\* restart_discovery_cycle
web_restart_discovery_cycle(tbl) ==
    [i \in Ids |->
        IF Exists(tbl, i)
        THEN [tbl[i] EXCEPT
                !.discover_done = FALSE,
                !.depth = IF @ = 0 THEN 0 ELSE NULL,
                !.assigned_at = IF tbl[i].assigned_to = "discover" THEN NULL ELSE @,
                !.assigned_to = IF @ = "discover" THEN NULLTXT ELSE @]
        ELSE NoRow]

\* The refresh statement of the web revision (LIMIT 1).
WebRefreshClaim(tbl, t) ==
    LET elig == {i \in Ids : /\ Exists(tbl, i)
                             /\ tbl[i].hero_done
                             /\ tbl[i].assigned_to = NULLTXT}
        Before(j, i) ==
            \/ WebRefreshKey(tbl[j].hero_refreshed_at) < WebRefreshKey(tbl[i].hero_refreshed_at)
            \/ /\ WebRefreshKey(tbl[j].hero_refreshed_at) = WebRefreshKey(tbl[i].hero_refreshed_at)
               /\ j < i
    IN  [i \in FirstN(elig, 1, Before) |->
            [tbl[i] EXCEPT !.hero_done = FALSE, !.assigned_to = "hero",
                           !.assigned_at = t]]

\* The hero statement of the web revision (LIMIT 1).
WebHeroClaim(tbl, t) ==
    LET elig == {i \in Ids : /\ Exists(tbl, i)
                             /\ ~tbl[i].hero_done
                             /\ tbl[i].assigned_to = NULLTXT}
        Before(j, i) == \/ WebDepthKey(tbl[j].depth) < WebDepthKey(tbl[i].depth)
                        \/ /\ WebDepthKey(tbl[j].depth) = WebDepthKey(tbl[i].depth)
                           /\ j < i
    IN  [i \in FirstN(elig, 1, Before) |->
            [tbl[i] EXCEPT !.assigned_to = "hero", !.assigned_at = t]]

WebNoTask == [type |-> "none", ids |-> {}, reclaimed |-> {}]


\* The loop of assign_next_task from loop_count on, as [players, counter,
\* task]; counter is the value written to task_assignment_counter, if any.
RECURSIVE WebAssignLoop(_, _, _)
WebAssignLoop(tbl, loop_count, t) ==
    LET next_count == loop_count + 1
        rdue == next_count % WEB_REFRESH_INTERVAL = 0
        ddue == next_count % WEB_DISCOVERY_INTERVAL = 0
        d1 == web_assign_discovery(tbl, t)
        restarted == ddue /\ DOMAIN d1.w = {}
        tblA == IF restarted THEN web_restart_discovery_cycle(tbl) ELSE tbl
        d == IF restarted THEN web_assign_discovery(tblA, t) ELSE d1
        refr == WebRefreshClaim(tblA, t)
        hero == WebHeroClaim(tblA, t)
        hero_pending == \E i \in Ids : Exists(tblA, i) /\ ~tblA[i].hero_done
        Given(w, type, reclaimed) ==
            [players |-> Merge(tblA, w), counter |-> next_count,
             task |-> [type |-> type, ids |-> DOMAIN w, reclaimed |-> reclaimed]]
    IN  IF ddue /\ DOMAIN d.w # {}
        THEN Given(d.w, "discover_matches", d.reclaimed)
        ELSE IF rdue /\ DOMAIN refr # {}
        THEN Given(refr, "fetch_hero_stats", {})
        ELSE IF DOMAIN hero # {}
        THEN Given(hero, "fetch_hero_stats", {})
        ELSE IF ~hero_pending /\ ~ddue /\ DOMAIN d1.w # {}
        THEN Given(d1.w, "discover_matches", d1.reclaimed)
        ELSE IF rdue \/ ddue
        THEN [players |-> tblA, counter |-> NULL, task |-> WebNoTask]
        ELSE WebAssignLoop(tbl, next_count, t)

\* maybe_run_assignment_cleanup of the web revision.
web_maybe_run_assignment_cleanup(tbl, m, t) ==
    IF m.last_cleanup # NULL /\ t - m.last_cleanup < ASSIGNMENT_CLEANUP_INTERVAL
    THEN [players |-> tbl, meta |-> m]
    ELSE [players |-> release_incomplete_assignments(tbl, MAX_AGE_MINUTES, t),
          meta |-> [m EXCEPT !.last_cleanup = t]]

\* assign_next_task() of the web revision (run_cleanup defaults to True).
web_assign_next_task(tbl, m, t) ==
    LET c == web_maybe_run_assignment_cleanup(tbl, m, t)
        r == WebAssignLoop(c.players, MetaInt(c.meta.counter), t)
    IN  [players |-> r.players,
         meta |-> IF r.counter = NULL THEN c.meta
                  ELSE [c.meta EXCEPT !.counter = r.counter],
         task |-> r.task]

\* Tasks are handed out while the counter is within MaxTasks of the start of
\* its window.
WebTasksLeft == (MetaInt(meta.counter) + 2) % WEB_REFRESH_INTERVAL < MaxTasks

\* GET /task
WebTask ==
    /\ WebTasksLeft
    /\ \E r \in {web_assign_next_task(players, meta, now)} :
        /\ players' = r.players
        /\ meta' = r.meta
        /\ op' = [name |-> "task", task |-> r.task]
    /\ UNCHANGED <<now, callVars, jobs, boardVars, schema, lowest>>

\* nextDepth and depth of a discover_matches payload.
WebDepthInputs ==
    {<<n, NULL>> : n \in 1 .. MaxDepth}
        \cup {<<NULL, d>> : d \in {NULL} \cup (0 .. MaxDepth - 1)}

\* The next depth the submit handler resolves.
web_next_depth(provided_next_depth, provided_depth, tbl, i) ==
    IF provided_next_depth # NULL THEN provided_next_depth
    ELSE IF provided_depth # NULL THEN provided_depth + 1
    ELSE IF Exists(tbl, i) /\ tbl[i].depth # NULL THEN tbl[i].depth + 1
    ELSE 1

\* POST /submit with type discover_matches.
WebSubmitDiscover ==
    \E i \in Ids, discovered \in SUBSET Ids, din \in WebDepthInputs,
       request_new_task \in BOOLEAN :
        LET next_depth_value == web_next_depth(din[1], din[2], players, i)
            marked == [players EXCEPT ![i] = [@ EXCEPT !.discover_done = TRUE,
                                                       !.assigned_to = NULLTXT,
                                                       !.assigned_at = NULL]]
        IN  IF ~Exists(players, i)
            THEN /\ op' = [name |-> "submit_discover", status |-> 404]
                 /\ UNCHANGED <<players, meta, now, callVars, jobs, boardVars,
                                schema, lowest>>
            ELSE /\ Len(jobs) < MaxJobs
                 /\ next_depth_value <= MaxDepth
                 /\ request_new_task => WebTasksLeft
                 /\ jobs' = Append(jobs, [kind |-> "discover", id |-> i,
                                          discovered |-> discovered,
                                          next_depth |-> next_depth_value])
                 /\ \E r \in {IF request_new_task
                              THEN web_assign_next_task(marked, meta, now)
                              ELSE [players |-> marked, meta |-> meta,
                                    task |-> WebNoTask]} :
                        /\ players' = r.players
                        /\ meta' = r.meta
                        /\ op' = [name |-> "submit_discover", status |-> 200,
                                  task |-> r.task]
                 /\ UNCHANGED <<now, callVars, boardVars, schema, lowest>>

\* _process_discover_submission
web_process_discover_submission(tbl, id, discovered, next_depth) ==
    [i \in Ids |->
        IF i \in discovered \ {id}
        THEN IF Exists(tbl, i) THEN [tbl[i] EXCEPT !.depth = next_depth]
             ELSE SeedRow(next_depth)
        ELSE IF i = id /\ Exists(tbl, i)
        THEN [tbl[i] EXCEPT !.discover_done = TRUE, !.assigned_to = NULLTXT,
                            !.assigned_at = NULL]
        ELSE tbl[i]]

\* The sequence without its k-th element.
RemoveAt(q, k) == [n \in 1 .. Len(q) - 1 |-> IF n < k THEN q[n] ELSE q[n + 1]]

\* A worker of the background executor runs a queued discovery job.
WebRunDiscoverJob ==
    \E k \in 1 .. Len(jobs) :
        /\ k <= WEB_WORKERS
        /\ jobs[k].kind = "discover"
        /\ players' = web_process_discover_submission(
                          players, jobs[k].id, jobs[k].discovered, jobs[k].next_depth)
        /\ jobs' = RemoveAt(jobs, k)
        /\ lowest' = LowerTo(lowest, jobs[k].discovered \ {jobs[k].id},
                              jobs[k].next_depth)
        /\ op' = [name |-> "discover_job"]
        /\ UNCHANGED <<meta, now, callVars, boardVars, schema>>

WebCounterStarts == {8, 98}

InitWeb ==
    /\ players \in [Ids -> {NoRow, SeedRow(0), HeroDoneRow(0)}]
    /\ meta \in {[counter |-> n, cursor |-> NULL, last_cleanup |-> NULL] :
                    n \in WebCounterStarts}
    /\ now = 0
    /\ txw = [c \in Calls |-> EmptyTx]
    /\ call = [c \in Calls |-> IdleCall]
    /\ jobs = <<>>
    /\ hero_stats = {}
    /\ hero_top100 = {}
    /\ schema = [seen_count |-> TRUE]
    /\ lowest = LowestOf(players)
    /\ op = NoOp

NextWeb == WebTask \/ WebSubmitDiscover \/ WebRunDiscoverJob

SpecWeb == InitWeb /\ [][NextWeb]_vars


\* ===================================================================
\* Package revision: the discovery jobs of submissions.py.
\* ===================================================================

\* _resolve_next_depth
resolve_next_depth(provided_next_depth, provided_depth, assignment_depth) ==
    IF provided_next_depth # NULL THEN provided_next_depth
    ELSE IF provided_depth # NULL THEN provided_depth + 1
    ELSE IF assignment_depth # NULL THEN assignment_depth + 1
    ELSE 1

\* _unmark_discover_task
unmark_discover_task(tbl, id) ==
    [i \in Ids |->
        IF i = id /\ Exists(tbl, i)
        THEN [tbl[i] EXCEPT !.discover_done = FALSE, !.assigned_to = NULLTXT,
                            !.assigned_at = NULL]
        ELSE tbl[i]]

\* Variant: an upsert that stores new children one level too deep.
upsert_children_deeper(tbl, children, next_depth) ==
    [i \in Ids |->
        IF i \notin children THEN tbl[i]
        ELSE IF ~Exists(tbl, i)
        THEN [SeedRow(next_depth + 1) EXCEPT !.seen_count = 1]
        ELSE IF ~tbl[i].discover_done \/ next_depth < tbl[i].depth
        THEN [tbl[i] EXCEPT
                !.depth = IF next_depth < @ THEN next_depth ELSE @,
                !.seen_count = IF ~tbl[i].discover_done THEN @ + 1 ELSE @]
        ELSE tbl[i]]

\* Variant: an upsert whose conflict branch also stores the flags of the
\* VALUES list.
upsert_children_resetting(tbl, children, next_depth) ==
    [i \in Ids |->
        IF i \notin children THEN tbl[i]
        ELSE IF ~Exists(tbl, i)
        THEN [SeedRow(next_depth) EXCEPT !.seen_count = 1]
        ELSE IF ~tbl[i].discover_done \/ next_depth < tbl[i].depth
        THEN [tbl[i] EXCEPT
                !.depth = IF next_depth < @ THEN next_depth ELSE @,
                !.hero_done = FALSE,
                !.discover_done = FALSE,
                !.seen_count = IF ~tbl[i].discover_done THEN @ + 1 ELSE @]
        ELSE tbl[i]]

\* INSERT INTO players ... ON CONFLICT DO UPDATE SET
\*   depth = LEAST(players.depth, excluded.depth), seen_count = ...
\* WHERE players.discover_done = FALSE OR excluded.depth < players.depth
\* (every child reported once: excluded.seen_count = 1).
upsert_children(tbl, children, next_depth) ==
    [i \in Ids |->
        IF i \notin children THEN tbl[i]
        ELSE IF ~Exists(tbl, i)
        THEN [SeedRow(next_depth) EXCEPT !.seen_count = 1]
        ELSE IF ~tbl[i].discover_done \/ next_depth < tbl[i].depth
        THEN [tbl[i] EXCEPT
                !.depth = IF next_depth < @ THEN next_depth ELSE @,
                !.seen_count = IF ~tbl[i].discover_done THEN @ + 1 ELSE @]
        ELSE tbl[i]]

\* process_discover_submission, as [players, meta, failed]. The children of
\* a submission fit in one batch (_DISCOVERY_BATCH_SIZE = 500), which is
\* committed before the cursor is reset. The upsert fails when the players
\* table has no seen_count column; late_error is a storage error raised by
\* the statement after the committed batch. The handler of either failure
\* unmarks the parent.
process_discover_submission(tbl, m, sch, job, late_error) ==
    LET next_depth_value ==
            resolve_next_depth(job.provided_next_depth, job.provided_depth,
                               job.assignment_depth)
        children == job.discovered \ {job.id}
    IN  IF children # {} /\ ~sch.seen_count
        THEN [players |-> unmark_discover_task(tbl, job.id), meta |-> m,
              failed |-> TRUE]
        ELSE IF late_error
        THEN [players |-> unmark_discover_task(
                              upsert_children(tbl, children, next_depth_value),
                              job.id),
              meta |-> m, failed |-> TRUE]
        ELSE [players |-> upsert_children(tbl, children, next_depth_value),
              meta |-> [m EXCEPT !.cursor = IF @ = NULL THEN NULL ELSE 0 - 1],
              failed |-> FALSE]

\* provided_next_depth, provided_depth and assignment_depth of a submission.
DepthInputs ==
    {<<n, NULL, NULL>> : n \in 1 .. MaxDepth}
        \cup {<<NULL, d, NULL>> : d \in 0 .. MaxDepth - 1}
        \cup {<<NULL, NULL, a>> : a \in {NULL} \cup (0 .. MaxDepth - 1)}

\* submit_discover_submission: the job is queued for the single worker.
SubmitDiscover ==
    \E i \in Ids, discovered \in SUBSET Ids, din \in DepthInputs :
        /\ Len(jobs) < MaxJobs
        /\ \A j \in Ids : Exists(players, j) => players[j].seen_count < MaxSeen
        /\ jobs' = Append(jobs, [kind |-> "discover", id |-> i,
                                 discovered |-> discovered,
                                 provided_next_depth |-> din[1],
                                 provided_depth |-> din[2],
                                 assignment_depth |-> din[3]])
        /\ op' = [name |-> "submit_discover"]
        /\ UNCHANGED <<players, meta, now, callVars, boardVars, schema, lowest>>

\* The worker of BACKGROUND_EXECUTOR runs the oldest job, a discovery job.
RunDiscoverJob ==
    /\ jobs # <<>>
    /\ Head(jobs).kind = "discover"
    /\ \E late_error \in BOOLEAN :
         \E r \in {process_discover_submission(players, meta, schema, Head(jobs),
                                                late_error)} :
            /\ players' = r.players
            /\ meta' = r.meta
            /\ op' = [name |-> "discover_job", failed |-> r.failed]
    /\ lowest' = LowerTo(lowest, Head(jobs).discovered \ {Head(jobs).id},
                         resolve_next_depth(Head(jobs).provided_next_depth,
                                            Head(jobs).provided_depth,
                                            Head(jobs).assignment_depth))
    /\ jobs' = Tail(jobs)
    /\ UNCHANGED <<now, callVars, boardVars, schema>>

\* A row whose discovery is complete.
DiscoverDoneRow(d) == [HeroDoneRow(d) EXCEPT !.discover_done = TRUE]

InitDiscover ==
    /\ players \in [Ids -> {NoRow, SeedRow(0), HeroDoneRow(1), DiscoverDoneRow(MaxDepth)}]
    /\ meta = [counter |-> NULL, cursor |-> NULL, last_cleanup |-> NULL]
    /\ now = 0
    /\ txw = [c \in Calls |-> EmptyTx]
    /\ call = [c \in Calls |-> IdleCall]
    /\ jobs = <<>>
    /\ hero_stats = {}
    /\ hero_top100 = {}
    /\ schema \in Schemas
    /\ lowest = LowestOf(players)
    /\ op = NoOp

\* Whole assignment calls, while fewer than MaxTasks tasks were handed out.
AssignSome == MetaInt(meta.counter) < MaxTasks /\ Assign

NextDiscover == AssignSome \/ SubmitDiscover \/ RunDiscoverJob

SpecDiscover == InitDiscover /\ [][NextDiscover]_vars

\* ------------------------------------------------ claims on SpecDiscover
\* C37: a discovery job changes nothing of an account that already exists
\* but its depth and seen_count: hero_done, discover_done, assigned_to,
\* assigned_at and hero_refreshed_at stay as they were. The parent of the
\* submission is not upserted as its own child: it is never inserted, and
\* its depth and seen_count stay; a job that succeeds leaves the parent row
\* as it was, and a job that fails changes on it only what the failure
\* handler resets (discover_done and the claim).
C37_RediscoveryFrame ==
    [][op'.name = "discover_job" =>
        LET parent == Head(jobs).id
        IN  /\ \A i \in Ids \ {parent} :
                   Exists(players, i) =>
                       /\ Exists(players', i)
                       /\ players'[i].hero_done = players[i].hero_done
                       /\ players'[i].discover_done = players[i].discover_done
                       /\ players'[i].assigned_to = players[i].assigned_to
                       /\ players'[i].assigned_at = players[i].assigned_at
                       /\ players'[i].hero_refreshed_at
                              = players[i].hero_refreshed_at
                       /\ players'[i].highest_match_id
                              = players[i].highest_match_id
            /\ Exists(players', parent) = Exists(players, parent)
            /\ Exists(players, parent) =>
                   /\ players'[parent].depth = players[parent].depth
                   /\ players'[parent].seen_count = players[parent].seen_count
                   /\ players'[parent].hero_done = players[parent].hero_done
                   /\ players'[parent].hero_refreshed_at
                          = players[parent].hero_refreshed_at
                   /\ ~op'.failed => players'[parent] = players[parent]]_vars

\* A job has succeeded and an account that is claimed, or whose hero
\* statistics are complete and discovery is not, carries the weight of a
\* rediscovery.
C37_Witness ==
    /\ op.name = "discover_job"
    /\ ~op.failed
    /\ \E i \in Ids : /\ Exists(players, i)
                       /\ players[i].assigned_to # NULLTXT
                       /\ players[i].seen_count > 0
    /\ \E i \in Ids : /\ Exists(players, i)
                       /\ players[i].hero_done
                       /\ players[i].hero_refreshed_at # NULL
                       /\ players[i].seen_count > 0

\* ===================================================================
\* Package revision: hero statistics and the leaderboard
\* (process_hero_submission, refresh_leaderboard_views).
\* ===================================================================
Heroes == 1 .. NumHeroes

\* Accounts of the leaderboard model: NumLow accounts, above them
\* LEADERBOARD_SIZE - 1 accounts that hold a row of hero 1 from the start, and
\* one account above those.
BgIds == (NumLow + 1) .. (NumLow + LEADERBOARD_SIZE - 1)
HighId == NumLow + LEADERBOARD_SIZE
FreeIds == (1 .. NumLow) \cup {HighId}

StatRow(a, h, mt, w) == [steamAccountId |-> a, heroId |-> h, matches |-> mt, wins |-> w]

\* ORDER BY matches DESC, wins DESC, steamAccountId ASC
Better(q, r) ==
    \/ q.matches > r.matches
    \/ q.matches = r.matches /\ q.wins > r.wins
    \/ q.matches = r.matches /\ q.wins = r.wins /\ q.steamAccountId < r.steamAccountId

\* ROW_NUMBER() OVER (PARTITION BY heroId ORDER BY ...) of row r in table T.
RowNumber(T, r) ==
    1 + Cardinality({q \in T : q.heroId = r.heroId /\ Better(q, r)})

\* refresh_leaderboard_views: the rows of hero_stats with rn <= 100.
refresh_leaderboard_views(stats) ==
    {r \in stats : RowNumber(stats, r) <= LEADERBOARD_SIZE}

\* Variant: an upsert that adds the incoming values to the stored ones.
upsert_hero_stat_adding(stats, a, row) ==
    LET old == {r \in stats : r.steamAccountId = a /\ r.heroId = row.heroId}
    IN  IF old = {} THEN stats \cup {StatRow(a, row.heroId, row.matches, row.wins)}
        ELSE (stats \ old)
                \cup {StatRow(a, row.heroId, r.matches + row.matches, r.wins + row.wins) :
                        r \in old}

\* INSERT INTO hero_stats ... ON CONFLICT DO UPDATE SET matches/wins =
\* CASE WHEN excluded.matches > hero_stats.matches THEN excluded ELSE stored.
upsert_hero_stat(stats, a, row) ==
    LET old == {r \in stats : r.steamAccountId = a /\ r.heroId = row.heroId}
    IN  IF old = {} THEN stats \cup {StatRow(a, row.heroId, row.matches, row.wins)}
        ELSE (stats \ old)
                \cup {IF row.matches > r.matches
                      THEN StatRow(a, row.heroId, row.matches, row.wins)
                      ELSE r : r \in old}

\* executemany over hero_stats_rows, in payload order.
RECURSIVE upsert_hero_stats(_, _, _)
upsert_hero_stats(stats, a, payload) ==
    IF payload = <<>> THEN stats
    ELSE upsert_hero_stats(upsert_hero_stat(stats, a, Head(payload)), a, Tail(payload))

\* DELETE FROM hero_top100 WHERE ctid = (SELECT ctid ... WHERE heroId=h
\* ORDER BY matches ASC, wins ASC, steamAccountId DESC LIMIT 1)
delete_lowest(board, h) ==
    board \ {r \in board : /\ r.heroId = h
                           /\ \A q \in board : (q.heroId = h /\ q # r) => Better(q, r)}

\* One round of the loop over stats_by_hero, for the row the account now
\* holds in hero_stats: what the round does, decided from the leaderboard as
\* read before the loop (existing rows, counts, thresholds).
leaderboard_step(board0, row) ==
    LET existing == {r \in board0 : /\ r.steamAccountId = row.steamAccountId
                                    /\ r.heroId = row.heroId}
        hero_count == Cardinality({r \in board0 : r.heroId = row.heroId})
        threshold == {r \in board0 : /\ r.heroId = row.heroId
                                     /\ RowNumber(board0, r) = LEADERBOARD_SIZE}
    IN  IF existing # {}
        THEN IF existing # {row} THEN "update" ELSE "continue"
        ELSE IF hero_count < LEADERBOARD_SIZE
        THEN "insert"
        ELSE IF threshold = {}
        THEN "continue"
        ELSE LET t == CHOOSE r \in threshold : TRUE
             IN  IF row.matches < t.matches THEN "continue"
                 ELSE IF row.matches = t.matches /\ row.wins <= t.wins THEN "continue"
                 ELSE "insert_delete"

\* The leaderboard after one round of the loop, the statements of the round
\* run one after the other with no other transaction in between.
maintain_leaderboard(board0, board, row) ==
    LET step == leaderboard_step(board0, row)
    IN  IF step = "update"
        THEN {r \in board : ~(/\ r.steamAccountId = row.steamAccountId
                              /\ r.heroId = row.heroId)} \cup {row}
        ELSE IF step = "insert"
        THEN board \cup {row}
        ELSE IF step = "insert_delete"
        THEN delete_lowest(board \cup {row}, row.heroId)
        ELSE board

\* The loop over stats_by_hero.
RECURSIVE maintain_all(_, _, _)
maintain_all(board0, board, rows) ==
    IF rows = {} THEN board
    ELSE LET row == CHOOSE r \in rows : TRUE
         IN  maintain_all(board0, maintain_leaderboard(board0, board, row),
                          rows \ {row})

\* process_hero_submission, as [hero_stats, hero_top100].
process_hero_submission(stats, board, a, payload) ==
    LET stats2 == upsert_hero_stats(stats, a, payload)
        hero_ids == {payload[k].heroId : k \in DOMAIN payload}
        stats_by_hero == {r \in stats2 : r.steamAccountId = a /\ r.heroId \in hero_ids}
    IN  [hero_stats |-> stats2,
         hero_top100 |-> maintain_all(board, board, stats_by_hero)]

\* The rows of a hero payload, and the payloads.
PayloadRows ==
    {[heroId |-> h, matches |-> mt, wins |-> w] :
        h \in Heroes, mt \in 1 .. MaxMatches, w \in 0 .. MaxWins}
Payloads == UNION {[1 .. n -> PayloadRows] : n \in 0 .. MaxPayload}

\* submit_hero_submission: the job is queued for the single worker.
SubmitHero ==
    \E a \in FreeIds, payload \in Payloads :
        /\ Len(jobs) < MaxJobs
        /\ jobs' = Append(jobs, [kind |-> "hero", id |-> a, payload |-> payload])
        /\ op' = [name |-> "submit_hero"]
        /\ UNCHANGED <<players, meta, now, callVars, boardVars, schema, lowest>>

\* The worker of BACKGROUND_EXECUTOR runs the oldest job, a hero job.
RunHeroJob ==
    /\ jobs # <<>>
    /\ Head(jobs).kind = "hero"
    /\ \E r \in {process_hero_submission(hero_stats, hero_top100,
                                         Head(jobs).id, Head(jobs).payload)} :
        /\ hero_stats' = r.hero_stats
        /\ hero_top100' = r.hero_top100
    /\ op' = [name |-> "hero_job", id |-> Head(jobs).id, payload |-> Head(jobs).payload]
    /\ jobs' = Tail(jobs)
    /\ UNCHANGED <<players, meta, now, callVars, schema, lowest>>

\* refresh_leaderboard_views, as run by the refresh worker and at start-up.
RefreshBoard ==
    /\ hero_top100' = refresh_leaderboard_views(hero_stats)
    /\ op' = [name |-> "refresh"]
    /\ UNCHANGED <<players, meta, now, callVars, jobs, hero_stats, schema, lowest>>

\* LEADERBOARD_SIZE - 1 accounts hold a row of hero 1, and the leaderboard
\* was rebuilt at start-up.
InitBoard ==
    /\ players = [i \in Ids |-> SeedRow(0)]
    /\ meta = [counter |-> NULL, cursor |-> NULL, last_cleanup |-> NULL]
    /\ now = 0
    /\ txw = [c \in Calls |-> EmptyTx]
    /\ call = [c \in Calls |-> IdleCall]
    /\ jobs = <<>>
    /\ hero_stats = {StatRow(a, 1, BgMatches, BgWins) : a \in BgIds}
    /\ hero_top100 = refresh_leaderboard_views(hero_stats)
    /\ schema = [seen_count |-> TRUE]
    /\ lowest = LowestOf(players)
    /\ op = NoOp

NextBoard == SubmitHero \/ RunHeroJob \/ RefreshBoard

SpecBoard == InitBoard /\ [][NextBoard]_vars

\* ------------------------------------------------ claims on SpecWeb
\* The task handed out by the last operation, if it handed one out.
WebLastTask ==
    IF op.name = "task" \/ (op.name = "submit_discover" /\ op.status = 200)
    THEN op.task
    ELSE WebNoTask

\* C2: RequestTask never returns an account whose assigned_to is non-null at
\* the moment of the claim: no task holds an account that was claimed
\* already when the claiming statement ran.
C2_ClaimsOnlyUnassigned == WebLastTask.reclaimed = {}

\* C18: no lost update on the assignment counter: the counter is advanced by
\* an atomic increment, never set to a value computed from an earlier read,
\* so every call that returns a task advances it by exactly one (after k
\* task-returning calls it is its initial value plus k).
C18_CounterCountsTasks ==
    [][(op'.name = "task" /\ op'.task.ids # {}) =>
        MetaInt(meta'.counter) = MetaInt(meta.counter) + 1]_vars

\* C8: a stored depth is never raised by a later discovery: a discovery job
\* leaves every account that had a depth at that depth or a lower one.
C8_DepthNeverRaised ==
    [][op'.name = "discover_job" =>
        \A i \in Ids :
            (Exists(players, i) /\ players[i].depth # NULL)
                => players'[i].depth <= players[i].depth]_vars


\* ------------------------------------------------ checks on SpecDiscover
\* Depth is min-wins in the package revision: when the deployed table has
\* the seen_count column, every stored depth is the lowest depth the account
\* was created or reported with.
PkgDepthMinWins ==
    schema.seen_count =>
        \A i \in Ids : Exists(players, i) => players[i].depth = lowest[i]

\* The job the background worker runs next, its children and its next depth.
NextJob == Head(jobs)
ChildrenOf(job) == job.discovered \ {job.id}
NextDepthOf(job) ==
    resolve_next_depth(job.provided_next_depth, job.provided_depth,
                       job.assignment_depth)

C16_DiscoveryCompensation ==
    [][(op'.name = "discover_job" /\ op'.failed) =>
        LET again == process_discover_submission(players', meta', schema,
                                                 NextJob, FALSE).players
            single == process_discover_submission(players, meta, schema,
                                                  NextJob, FALSE).players
        IN  /\ Exists(players', NextJob.id) =>
                  /\ ~players'[NextJob.id].discover_done
                  /\ players'[NextJob.id].assigned_to = NULLTXT
            /\ schema.seen_count =>
                  \A i \in ChildrenOf(NextJob) :
                      /\ again[i].depth = single[i].depth
                      /\ again[i].seen_count = single[i].seen_count]_vars

\* The parent half of C16 alone: after a failed discovery job the parent is
\* discovery-incomplete and unclaimed.
DiscoverFailureUnmarksParent ==
    [][(op'.name = "discover_job" /\ op'.failed /\ Exists(players', NextJob.id)) =>
        /\ ~players'[NextJob.id].discover_done
        /\ players'[NextJob.id].assigned_to = NULLTXT]_vars


\* ------------------------------------------------ rebuild against hero job
\* The refresh worker's rebuild and the hero job of BACKGROUND_EXECUTOR run
\* in threads of their own, each on its own connection (READ COMMITTED). In
\* this specification hero_stats and hero_top100 are the committed tables,
\* txw.job and txw.rebuild the uncommitted writes of the two transactions
\* (the tuples they deleted or updated are the row locks they hold), and
\* call.job and call.rebuild their positions. A statement that has to write a
\* tuple another transaction has locked waits for that transaction to end.

\* A tuple that no longer exists.
Gone == StatRow(0, 0, 0, 0)

SameKey(q, r) == q.heroId = r.heroId /\ q.steamAccountId = r.steamAccountId

IdleJobTx == [stats |-> {}, ins |-> {}, del |-> {}, upd |-> {}]
IdleRebuildTx == [ins |-> {}, del |-> {}]
IdleJob == [pc |-> "idle", id |-> 0, todo |-> {}, row |-> Gone, target |-> Gone]
IdleRebuild == [pc |-> "idle", snap |-> {}]

\* The committed tuples the job has deleted or updated, and the leaderboard
\* as the statements of the job see it.
JobLocks == txw.job.del \cup {p[1] : p \in txw.job.upd}
JobView == (hero_top100 \ JobLocks) \cup txw.job.ins \cup {p[2] : p \in txw.job.upd}

\* Variant: an unmark that leaves the refresh time of the account.
unmark_hero_task_keeping_time(tbl, id) ==
    [i \in Ids |->
        IF i = id /\ Exists(tbl, i)
        THEN [tbl[i] EXCEPT !.hero_done = FALSE,
                            !.assigned_to = NULLTXT, !.assigned_at = NULL]
        ELSE tbl[i]]

\* _unmark_hero_task
unmark_hero_task(tbl, id) ==
    [i \in Ids |->
        IF i = id /\ Exists(tbl, i)
        THEN [tbl[i] EXCEPT !.hero_done = FALSE, !.hero_refreshed_at = NULL,
                            !.assigned_to = NULLTXT, !.assigned_at = NULL]
        ELSE tbl[i]]

\* The round of the loop over stats_by_hero that comes next: the row and
\* what the reads before the loop make of it.
JobRound == CHOOSE r \in call.job.todo : TRUE
JobRowNext == JobRound.row

\* The job is about to insert a row.
JobInserts ==
    /\ call.job.pc = "loop"
    /\ call.job.todo # {}
    /\ JobRound.step \in {"insert", "insert_delete"}

\* The job waits for the rebuild: its UPDATE or DELETE found its tuple
\* deleted by the rebuild, or its INSERT found its key deleted or inserted
\* by the rebuild, and the rebuild has not ended.
JobWaits ==
    \/ /\ call.job.pc \in {"updating", "deleting"}
       /\ call.job.target \in txw.rebuild.del
    \/ /\ JobInserts
       /\ \E r \in txw.rebuild.del \cup txw.rebuild.ins : SameKey(r, JobRowNext)

\* The rebuild waits for the job: its DELETE found a tuple the job has
\* locked, or its INSERT found a key the job has inserted or locked.
RebuildWaits ==
    \/ /\ call.rebuild.pc = "deleting"
       /\ call.rebuild.snap \cap JobLocks # {}
    \/ /\ call.rebuild.pc = "insert"
       /\ \E r \in refresh_leaderboard_views(hero_stats) :
             \E q \in txw.job.ins \cup JobLocks : SameKey(q, r)

\* The rollback of the job and its except clause.
JobFails ==
    /\ txw' = [txw EXCEPT !.job = IdleJobTx]
    /\ call' = [call EXCEPT !.job = IdleJob]
    /\ players' = unmark_hero_task(players, call.job.id)
    /\ UNCHANGED <<meta, now, jobs, hero_stats, hero_top100, schema, lowest, op>>

\* The rollback of the rebuild; the refresh worker logs the exception.
RebuildFails ==
    /\ txw' = [txw EXCEPT !.rebuild = IdleRebuildTx]
    /\ call' = [call EXCEPT !.rebuild = IdleRebuild]
    /\ UNCHANGED <<players, meta, now, jobs, hero_stats, hero_top100, schema, lowest, op>>

\* The worker of BACKGROUND_EXECUTOR takes up a hero job that
\* submit_hero_submission queued, and runs process_hero_submission up to the
\* loop: the upsert of hero_stats and the four SELECTs.
JobBegin ==
    /\ call.job.pc = "idle"
    /\ \E a \in FreeIds, payload \in Payloads :
        \E stats2 \in {upsert_hero_stats(hero_stats, a, payload)} :
            LET hero_ids == {payload[k].heroId : k \in DOMAIN payload}
                stats_by_hero == {r \in stats2 : /\ r.steamAccountId = a
                                                 /\ r.heroId \in hero_ids}
            IN  /\ txw' = [txw EXCEPT !.job.stats = stats2]
                /\ call' = [call EXCEPT !.job =
                       [pc |-> "loop", id |-> a,
                        todo |-> {[row |-> r, step |-> leaderboard_step(hero_top100, r)] :
                                    r \in stats_by_hero},
                        row |-> Gone, target |-> Gone]]
    /\ UNCHANGED <<players, meta, now, jobs, hero_stats, hero_top100, schema, lowest, op>>

\* A round of the loop that writes nothing.
JobContinue ==
    /\ call.job.pc = "loop"
    /\ call.job.todo # {}
    /\ JobRound.step = "continue"
    /\ call' = [call EXCEPT !.job.todo = @ \ {JobRound}]
    /\ UNCHANGED <<players, meta, now, txw, jobs, hero_stats, hero_top100, schema, lowest, op>>

\* UPDATE hero_top100 ... WHERE heroId=%s AND steamAccountId=%s: the
\* statement finds its tuple.
JobUpdateSelect ==
    /\ call.job.pc = "loop"
    /\ call.job.todo # {}
    /\ JobRound.step = "update"
    /\ LET found == {r \in JobView : SameKey(r, JobRowNext)}
       IN  call' = [call EXCEPT !.job.pc = "updating", !.job.row = JobRowNext,
                                !.job.target = IF found = {} THEN Gone
                                               ELSE CHOOSE r \in found : TRUE]
    /\ UNCHANGED <<players, meta, now, txw, jobs, hero_stats, hero_top100, schema, lowest, op>>

\* INSERT INTO hero_top100: a committed row with the key of the new row
\* fails the statement and with it the job.
JobInsert ==
    /\ JobInserts
    /\ ~JobWaits
    /\ IF \E r \in JobView : SameKey(r, JobRowNext)
       THEN JobFails
       ELSE /\ txw' = [txw EXCEPT !.job.ins = @ \cup {JobRowNext}]
            /\ call' = IF JobRound.step = "insert"
                       THEN [call EXCEPT !.job.todo = @ \ {JobRound}]
                       ELSE [call EXCEPT !.job.pc = "delete", !.job.row = JobRowNext]
            /\ UNCHANGED <<players, meta, now, jobs, hero_stats, hero_top100,
                           schema, lowest, op>>

\* DELETE FROM hero_top100 WHERE ctid = (SELECT ctid ... LIMIT 1): the
\* subquery finds the lowest tuple of the hero.
JobDeleteSelect ==
    /\ call.job.pc = "delete"
    /\ LET view == JobView
           lowest_rows == view \ delete_lowest(view, call.job.row.heroId)
       IN  call' = [call EXCEPT !.job.pc = "deleting",
                                !.job.target = IF lowest_rows = {} THEN Gone
                                               ELSE CHOOSE r \in lowest_rows : TRUE]
    /\ UNCHANGED <<players, meta, now, txw, jobs, hero_stats, hero_top100, schema, lowest, op>>

\* The UPDATE or DELETE writes the tuple it found, unless a transaction that
\* committed since has deleted that tuple: then it writes nothing.
JobApply ==
    /\ call.job.pc \in {"updating", "deleting"}
    /\ ~JobWaits
    /\ LET t == call.job.target
           w == txw.job
       IN  txw' = [txw EXCEPT !.job =
                IF t = Gone THEN w
                ELSE IF call.job.pc = "updating"
                THEN IF t \in w.ins
                     THEN [w EXCEPT !.ins = (@ \ {t}) \cup {call.job.row}]
                     ELSE [w EXCEPT !.upd = @ \cup {<<t, call.job.row>>}]
                ELSE IF t \in w.ins
                THEN [w EXCEPT !.ins = @ \ {t}]
                ELSE IF \E p \in w.upd : p[2] = t
                THEN [w EXCEPT !.upd = {p \in @ : p[2] # t},
                               !.del = @ \cup {p[1] : p \in {q \in w.upd : q[2] = t}}]
                ELSE [w EXCEPT !.del = @ \cup {t}]]
    /\ call' = [call EXCEPT !.job.pc = "loop", !.job.todo = {r \in @ : r.row # call.job.row},
                            !.job.row = Gone, !.job.target = Gone]
    /\ UNCHANGED <<players, meta, now, jobs, hero_stats, hero_top100, schema, lowest, op>>

\* The commit of the job on leaving db_connection. A DELETE of the rebuild
\* that waited for the job goes on with the tuples the job left and with the
\* new versions of those it updated.
JobCommit ==
    /\ call.job.pc = "loop"
    /\ call.job.todo = {}
    /\ hero_stats' = txw.job.stats
    /\ hero_top100' = JobView
    /\ txw' = [txw EXCEPT !.job = IdleJobTx]
    /\ call' = [call EXCEPT !.job = IdleJob,
                            !.rebuild.snap =
                                (@ \ JobLocks)
                                    \cup {p[2] : p \in {q \in txw.job.upd : q[1] \in @}}]
    /\ UNCHANGED <<players, meta, now, jobs, schema, lowest, op>>

\* DELETE FROM public.hero_top100: the statement finds the committed tuples.
RebuildDeleteSelect ==
    /\ call.rebuild.pc = "idle"
    /\ call' = [call EXCEPT !.rebuild = [pc |-> "deleting", snap |-> hero_top100]]
    /\ UNCHANGED <<players, meta, now, txw, jobs, hero_stats, hero_top100, schema, lowest, op>>

\* The DELETE deletes the tuples it found.
RebuildDeleteApply ==
    /\ call.rebuild.pc = "deleting"
    /\ ~RebuildWaits
    /\ txw' = [txw EXCEPT !.rebuild.del = call.rebuild.snap]
    /\ call' = [call EXCEPT !.rebuild = [pc |-> "insert", snap |-> {}]]
    /\ UNCHANGED <<players, meta, now, jobs, hero_stats, hero_top100, schema, lowest, op>>

\* INSERT INTO public.hero_top100 SELECT ... WHERE ranked.rn <= 100, from
\* the committed hero_stats: a committed row the DELETE did not delete, with
\* the key of a new row, fails the statement and with it the rebuild.
RebuildInsert ==
    /\ call.rebuild.pc = "insert"
    /\ ~RebuildWaits
    /\ LET rows == refresh_leaderboard_views(hero_stats)
       IN  IF \E r \in rows : \E q \in hero_top100 \ txw.rebuild.del : SameKey(q, r)
           THEN RebuildFails
           ELSE /\ txw' = [txw EXCEPT !.rebuild.ins = rows]
                /\ call' = [call EXCEPT !.rebuild.pc = "commit"]
                /\ UNCHANGED <<players, meta, now, jobs, hero_stats, hero_top100,
                               schema, lowest, op>>

\* connection.commit(): the tuples the rebuild deleted cease to exist, the
\* one a statement of the job waits for among them.
RebuildCommit ==
    /\ call.rebuild.pc = "commit"
    /\ hero_top100' = (hero_top100 \ txw.rebuild.del) \cup txw.rebuild.ins
    /\ txw' = [txw EXCEPT !.rebuild = IdleRebuildTx]
    /\ call' = [call EXCEPT !.rebuild = IdleRebuild,
                            !.job.target = IF @ \in txw.rebuild.del THEN Gone ELSE @]
    /\ UNCHANGED <<players, meta, now, jobs, hero_stats, schema, lowest, op>>

\* A statement of the job, or its commit, raises a storage error.
JobStatementError ==
    /\ call.job.pc # "idle"
    /\ JobFails

\* Each transaction waits for the other: the server ends one of them with
\* a deadlock error.
DeadlockDetected ==
    /\ JobWaits
    /\ RebuildWaits
    /\ (JobFails \/ RebuildFails)

\* A hero-complete account under a discovery claim.
MarkedRow == [HeroDoneRow(0) EXCEPT !.assigned_to = "discover", !.assigned_at = 0]

\* LEADERBOARD_SIZE accounts hold a row of hero 1, and the leaderboard was
\* rebuilt at start-up.
InitRebuild ==
    /\ players = [i \in Ids |-> MarkedRow]
    /\ meta = [counter |-> NULL, cursor |-> NULL, last_cleanup |-> NULL]
    /\ now = 0
    /\ txw = [job |-> IdleJobTx, rebuild |-> IdleRebuildTx]
    /\ call = [job |-> IdleJob, rebuild |-> IdleRebuild]
    /\ jobs = <<>>
    /\ hero_stats = {StatRow(a, 1, BgMatches, BgWins) : a \in BgIds \cup {HighId}}
    /\ hero_top100 = refresh_leaderboard_views(hero_stats)
    /\ schema = [seen_count |-> TRUE]
    /\ lowest = LowestOf(players)
    /\ op = NoOp

NextRebuild ==
    \/ JobBegin \/ JobContinue \/ JobUpdateSelect \/ JobInsert \/ JobDeleteSelect
    \/ JobApply \/ JobCommit
    \/ RebuildDeleteSelect \/ RebuildDeleteApply \/ RebuildInsert \/ RebuildCommit
    \/ DeadlockDetected \/ JobStatementError

SpecRebuild == InitRebuild /\ [][NextRebuild]_vars

RowsOf(T, a, h) == {r \in T : r.steamAccountId = a /\ r.heroId = h}

\* C6: the leaderboard holds at most LEADERBOARD_SIZE rows for every hero
\* and at most one row for every (hero, account) pair, after any sequence
\* and any interleaving of hero submissions and rebuilds.
C6_LeaderboardBound ==
    /\ \A h \in Heroes :
          Cardinality({r \in hero_top100 : r.heroId = h}) <= LEADERBOARD_SIZE
    /\ \A r \in hero_top100 :
          RowsOf(hero_top100, r.steamAccountId, r.heroId) = {r}

\* C7: after every hero submission the leaderboard equals what a rebuild
\* from hero_stats produces: the top LEADERBOARD_SIZE rows of every hero by
\* (matches desc, wins desc, account id asc).
C7_BoardIsTop100 ==
    op.name = "hero_job" => hero_top100 = refresh_leaderboard_views(hero_stats)

C10_KeepLargerOrEqual ==
    [][(op'.name = "hero_job" /\ Len(op'.payload) = 1) =>
        LET row == op'.payload[1]
        IN  \A r \in RowsOf(hero_stats, op'.id, row.heroId) :
                RowsOf(hero_stats', op'.id, row.heroId) =
                    IF row.matches >= r.matches
                    THEN {StatRow(op'.id, row.heroId, row.matches, row.wins)}
                    ELSE {r}]_vars

\* ===================================================================
\* Package revision: the refresh cycle in the long run. Every account has
\* its hero stats and its discovery complete (the frontier is exhausted),
\* workers keep asking for tasks and hand in what they were given, all
\* within the minute after the refresh times of the initial store.
\* ===================================================================

\* The counter two tasks before the discovery-due call.
LiveCounters == {196}

\* The synchronous part of a hero submission with no hero rows: the
\* account's collection is complete, its refresh time is now and its claim
\* is cleared (the package's submit route is not among the sources; the
\* background job of an empty payload writes nothing).
submit_hero_stats(tbl, id, t) ==
    [i \in DOMAIN tbl |->
        IF i = id /\ Exists(tbl, i)
        THEN [tbl[i] EXCEPT !.hero_done = TRUE, !.hero_refreshed_at = t,
                            !.assigned_to = NULLTXT, !.assigned_at = NULL]
        ELSE tbl[i]]

\* A worker hands in the hero stats of an account it holds.
SubmitHeroStats ==
    \E i \in DOMAIN players :
        /\ Exists(players, i)
        /\ players[i].assigned_to = "hero"
        /\ players' = submit_hero_stats(players, i, now)
        /\ op' = [name |-> "submit_hero", id |-> i]
        /\ UNCHANGED <<meta, now, callVars, jobs, boardVars, schema, lowest>>

\* The workers of this specification; each asks for a task again after its
\* call has ended.
LiveCalls == {1}

\* The worker whose call has ended, with a task, with none or with an
\* error, is ready to call again.
Again(c) ==
    /\ call[c].pc \in {"done", "failed"}
    /\ call' = [call EXCEPT ![c] = IdleCall]
    /\ UNCHANGED <<players, meta, now, txw, seqVars>>

\* A statement of a RequestTask call.
CallStep(c) ==
    \/ Start(c)
    \/ DiscoveryDue(c)
    \/ Refresh(c)
    \/ HeroRead(c)
    \/ HeroTry(c)
    \/ HeroPending(c)
    \/ Fallback(c)
    \/ Finish(c)
    \/ Again(c)

InitLive ==
    /\ players = [i \in Accounts |-> IF i = 0 THEN NoRow ELSE DiscoverDoneRow(0)]
    /\ meta \in {[counter |-> n, cursor |-> NULL, last_cleanup |-> NULL] :
                    n \in LiveCounters}
    /\ now = 1
    /\ txw = [c \in Calls |-> EmptyTx]
    /\ call = [c \in Calls |-> IdleCall]
    /\ jobs = <<>>
    /\ hero_stats = {}
    /\ hero_top100 = {}
    /\ schema = [seen_count |-> TRUE]
    /\ lowest = LowestOf(players)
    /\ op = NoOp

NextLive == (\E c \in LiveCalls : CallStep(c)) \/ SubmitHeroStats

\* Workers keep calling RequestTask and every task handed out is handed in.
SpecLive ==
    /\ InitLive
    /\ [][NextLive]_vars
    /\ WF_vars(\E c \in LiveCalls : CallStep(c))
    /\ WF_vars(SubmitHeroStats)

\* ------------------------------------------------ claims on SpecLive
\* C21: refresh liveness: while workers keep calling RequestTask and hand in
\* every task, every account whose hero stats are complete is eventually
\* handed out again for a hero-stat refresh.
C21_RefreshLiveness ==
    \A i \in Accounts \ {0} :
        (players[i].hero_done /\ players[i].assigned_to = NULLTXT)
            ~> (players[i].assigned_to = "hero")

\* What holds of C21: up to the first discovery-due call the refresh claims
\* reach every account, the ones a batch left out first.
RefreshReachesEveryAccount ==
    \A i \in Accounts \ {0} : <>(players[i].assigned_to = "hero")

\* Where the cycle ends: once the counter stands before a discovery-due
\* call and no account awaits discovery, every call ends with an error: the
\* counter stays and no account is claimed any more.
StuckBeforeDiscoveryDue ==
    [][discovery_due(MetaInt(meta.counter) + 1) =>
          /\ meta' = meta
          /\ \A i \in Accounts \ {0} :
                players'[i].assigned_to = "hero" => players[i].assigned_to = "hero"]_vars

\* ===================================================================
\* Package revision: hero submissions that name heroes outside the hero
\* catalog. The catalog (stratz_scraper.heroes.HEROES) holds the hero ids
\* 1 .. NumHeroes; UnknownHero is an id it does not hold.
\* ===================================================================
UnknownHero == NumHeroes + 1

\* The rows a worker may send, and the payloads of at most one row.
AnyPayloadRows ==
    {[heroId |-> h, matches |-> mt, wins |-> 0] :
        h \in Heroes \cup {UnknownHero}, mt \in 1 .. MaxCatMatches}
AnyPayloads == UNION {[1 .. n -> AnyPayloadRows] : n \in 0 .. MaxPayload}

\* submit_hero_submission for any account and any payload.
SubmitAnyHero ==
    \E a \in Ids, payload \in AnyPayloads :
        /\ Len(jobs) < MaxJobs
        /\ jobs' = Append(jobs, [kind |-> "hero", id |-> a, payload |-> payload])
        /\ op' = [name |-> "submit_hero"]
        /\ UNCHANGED <<players, meta, now, callVars, boardVars, schema, lowest>>

InitCatalog ==
    /\ players = [i \in Ids |-> SeedRow(0)]
    /\ meta = [counter |-> NULL, cursor |-> NULL, last_cleanup |-> NULL]
    /\ now = 0
    /\ txw = [c \in Calls |-> EmptyTx]
    /\ call = [c \in Calls |-> IdleCall]
    /\ jobs = <<>>
    /\ hero_stats = {}
    /\ hero_top100 = {}
    /\ schema = [seen_count |-> TRUE]
    /\ lowest = LowestOf(players)
    /\ op = NoOp

NextCatalog == SubmitAnyHero \/ RunHeroJob

SpecCatalog == InitCatalog /\ [][NextCatalog]_vars

\* ------------------------------------------------ claims on SpecCatalog
\* The rows of a table whose hero is not in the catalog.
OutsideCatalog(T) == {r \in T : r.heroId \notin Heroes}

\* C22: hero catalog filter: when a hero submission is processed, a tuple
\* whose hero id is not in the hero catalog is ignored: it creates or
\* changes no row of hero_stats and no row of the leaderboard.
C22_UnknownHeroIgnored ==
    [][op'.name = "hero_job" =>
        /\ OutsideCatalog(hero_stats') = OutsideCatalog(hero_stats)
        /\ OutsideCatalog(hero_top100') = OutsideCatalog(hero_top100)]_vars

\* ===================================================================
\* Package revision: the administrative operations (tasks.py, seed.py)
\* next to whole assignment calls, the reclaimer and the compensation of
\* failed background jobs. The clock advances by the reclaim timeout.
\* ===================================================================
TaskTypes == {"fetch_hero_stats", "discover_matches", "other"}

\* Variant: a hero reset that clears the claim but keeps its time.
reset_hero_task_keeping_time(tbl, id) ==
    [i \in DOMAIN tbl |->
        IF i = id /\ Exists(tbl, i)
        THEN [tbl[i] EXCEPT !.hero_done = (tbl[i].hero_refreshed_at # NULL),
                            !.assigned_to = NULLTXT]
        ELSE tbl[i]]

\* _reset_hero_task: the UPDATE of players.
reset_hero_task(tbl, id) ==
    [i \in DOMAIN tbl |->
        IF i = id /\ Exists(tbl, i)
        THEN [tbl[i] EXCEPT !.hero_done = (tbl[i].hero_refreshed_at # NULL),
                            !.assigned_to = NULLTXT, !.assigned_at = NULL]
        ELSE tbl[i]]

\* Variant: a discovery reset that only clears the claim.
reset_discover_task_claim_only(tbl, id) ==
    [i \in DOMAIN tbl |->
        IF i = id /\ Exists(tbl, i)
        THEN [tbl[i] EXCEPT !.assigned_to = NULLTXT, !.assigned_at = NULL]
        ELSE tbl[i]]

\* _reset_discover_task
reset_discover_task(tbl, id) ==
    [i \in DOMAIN tbl |->
        IF i = id /\ Exists(tbl, i)
        THEN [tbl[i] EXCEPT !.discover_done = FALSE, !.full_write_done = FALSE,
                            !.assigned_to = NULLTXT, !.assigned_at = NULL]
        ELSE tbl[i]]

\* _reset_generic_task
reset_generic_task(tbl, id) ==
    [i \in DOMAIN tbl |->
        IF i = id /\ Exists(tbl, i)
        THEN [tbl[i] EXCEPT !.assigned_to = NULLTXT, !.assigned_at = NULL]
        ELSE tbl[i]]

\* Variant: a reset that creates the row it does not find.
reset_player_task_creating(tbl, m, id, task_type) ==
    [players |-> [tbl EXCEPT ![id] = IF Exists(tbl, id)
                                     THEN reset_generic_task(tbl, id)[id]
                                     ELSE SeedRow(0)],
     meta |-> m,
     found |-> Exists(tbl, id)]

\* reset_player_task, as [players, meta, found]: found is its return value
\* (updated > 0). The hero reset also puts the hero cursor back to -1 when it
\* updated a row.
reset_player_task(tbl, m, id, task_type) ==
    [players |-> IF task_type = "fetch_hero_stats" THEN reset_hero_task(tbl, id)
                 ELSE IF task_type = "discover_matches"
                 THEN reset_discover_task(tbl, id)
                 ELSE reset_generic_task(tbl, id),
     meta |-> IF task_type = "fetch_hero_stats" /\ Exists(tbl, id)
              THEN [m EXCEPT !.cursor = 0 - 1]
              ELSE m,
     found |-> Exists(tbl, id)]

ResetTask ==
    \E id \in Ids, task_type \in TaskTypes :
        \E r \in {reset_player_task(players, meta, id, task_type)} :
            /\ players' = r.players
            /\ meta' = r.meta
            /\ op' = [name |-> "reset", id |-> id, type |-> task_type,
                      found |-> r.found]
            /\ UNCHANGED <<now, callVars, jobs, boardVars, schema, lowest>>

\* Variant: a seed that writes its row over an existing one.
seed_players_overwriting(tbl, start, end) ==
    [i \in DOMAIN tbl |-> IF start <= i /\ i <= end THEN SeedRow(0) ELSE tbl[i]]

\* seed_players: INSERT (pid, 0, FALSE, FALSE) ON CONFLICT DO NOTHING for
\* every pid of range(start, end + 1).
seed_players(tbl, start, end) ==
    [i \in DOMAIN tbl |->
        IF start <= i /\ i <= end /\ ~Exists(tbl, i) THEN SeedRow(0) ELSE tbl[i]]

Seed ==
    \E start \in Ids, end \in Ids :
        /\ players' = seed_players(players, start, end)
        /\ lowest' = LowerTo(lowest,
                             {i \in Ids : start <= i /\ i <= end /\ ~Exists(players, i)},
                             0)
        /\ op' = [name |-> "seed", start |-> start, end |-> end]
        /\ UNCHANGED <<meta, now, callVars, jobs, boardVars, schema>>

\* process_hero_submission for account a raises: its transaction is rolled
\* back and the handler unmarks the account.
HeroJobFails ==
    \E a \in Ids :
        /\ players' = unmark_hero_task(players, a)
        /\ op' = [name |-> "hero_job_failed", id |-> a]
        /\ UNCHANGED <<meta, now, callVars, jobs, boardVars, schema, lowest>>

\* process_discover_submission for parent a raises before any batch of
\* children is committed: the handler unmarks the parent.
DiscoverJobFails ==
    \E a \in Ids :
        /\ players' = unmark_discover_task(players, a)
        /\ op' = [name |-> "discover_job_failed", id |-> a]
        /\ UNCHANGED <<meta, now, callVars, jobs, boardVars, schema, lowest>>

\* The clock advances by the reclaim timeout.
AdminTick ==
    /\ now + MAX_AGE_MINUTES <= MaxTime
    /\ now' = now + MAX_AGE_MINUTES
    /\ op' = [name |-> "tick"]
    /\ UNCHANGED <<players, meta, callVars, jobs, boardVars, schema, lowest>>

\* Counter values: before the refresh-due call that precedes a discovery-due
\* one, and before the discovery-due call.
AdminCounters == {197, 198}

\* Whole assignment calls, up to MaxTasks tasks past the first counter value.
AdminAssign == MetaInt(meta.counter) < Min(AdminCounters) + MaxTasks /\ Assign

AdminRows == {NoRow, SeedRow(0), HeroDoneRow(0), DiscoverDoneRow(1)}

InitAdmin ==
    /\ players \in [Ids -> AdminRows]
    /\ meta \in {[counter |-> n, cursor |-> NULL, last_cleanup |-> NULL] :
                    n \in AdminCounters}
    /\ now = 0
    /\ txw = [c \in Calls |-> EmptyTx]
    /\ call = [c \in Calls |-> IdleCall]
    /\ jobs = <<>>
    /\ hero_stats = {}
    /\ hero_top100 = {}
    /\ schema = [seen_count |-> TRUE]
    /\ lowest = LowestOf(players)
    /\ op = NoOp

NextAdmin ==
    \/ AdminAssign
    \/ AdminTick
    \/ Release
    \/ ResetTask
    \/ Seed
    \/ HeroJobFails
    \/ DiscoverJobFails

SpecAdmin == InitAdmin /\ [][NextAdmin]_vars

\* ------------------------------------------------ claims on SpecAdmin
\* C23: in every reachable state every account has a claim time exactly
\* when it has a claimant: assigned_to non-null implies assigned_at non-null,
\* and the operations that set or clear a claim set or clear both fields.
C23_ClaimFieldsTogether ==
    \A i \in Ids :
        Exists(players, i) =>
            (players[i].assigned_to = NULLTXT <=> players[i].assigned_at = NULL)

\* A reclaim pass has released a claim while another account is claimed.
C23_Witness ==
    /\ op.name = "release"
    /\ op.released # {}
    /\ \E i \in Ids : /\ Exists(players, i)
                      /\ players[i].assigned_to # NULLTXT
                      /\ players[i].assigned_at # NULL

\* The claim tag of the task a reset names.
ClaimOf(task_type) ==
    IF task_type = "fetch_hero_stats" THEN "hero"
    ELSE IF task_type = "discover_matches" THEN "discover"
    ELSE NULLTXT

\* C25 (as stated): after ResetTask(id, type) on an existing account the
\* account is eligible again for the reset type: discover_done is FALSE
\* after a discover_matches reset and hero_done is FALSE after a
\* fetch_hero_stats reset; the account is unclaimed unless it was held
\* under a claim of the other task type, which is kept.
C25_ResetReschedulable ==
    [][(op'.name = "reset" /\ op'.found) =>
        LET before == players[op'.id]
            after == players'[op'.id]
            other_claim == /\ before.assigned_to # NULLTXT
                           /\ ClaimOf(op'.type) # NULLTXT
                           /\ before.assigned_to # ClaimOf(op'.type)
        IN  /\ op'.type = "discover_matches" => ~after.discover_done
            /\ op'.type = "fetch_hero_stats" => ~after.hero_done
            /\ IF other_claim
               THEN /\ after.assigned_to = before.assigned_to
                    /\ after.assigned_at = before.assigned_at
               ELSE /\ after.assigned_to = NULLTXT
                    /\ after.assigned_at = NULL]_vars

\* C25 (amended): ResetTask(id, type) on an existing account clears whatever
\* claim the account holds; a discover_matches reset also sets discover_done
\* and full_write_done to FALSE; a fetch_hero_stats reset sets hero_done to
\* "has been refreshed before" (hero_refreshed_at non-null) and puts the hero
\* cursor back to -1; nothing else of the account and no other account
\* changes.
C25_ResetEffect ==
    [][(op'.name = "reset" /\ op'.found) =>
        LET before == players[op'.id]
            after == players'[op'.id]
        IN  /\ after = [before EXCEPT
                  !.assigned_to = NULLTXT,
                  !.assigned_at = NULL,
                  !.discover_done = IF op'.type = "discover_matches"
                                    THEN FALSE ELSE @,
                  !.full_write_done = IF op'.type = "discover_matches"
                                      THEN FALSE ELSE @,
                  !.hero_done = IF op'.type = "fetch_hero_stats"
                                THEN before.hero_refreshed_at # NULL ELSE @]
            /\ \A j \in Ids \ {op'.id} : players'[j] = players[j]
            /\ meta' = IF op'.type = "fetch_hero_stats"
                       THEN [meta EXCEPT !.cursor = 0 - 1] ELSE meta]_vars

\* After tasks were handed out, a fetch_hero_stats reset has left a refreshed
\* account hero-complete, or a discover_matches reset has reopened the
\* discovery of an account.
C25_Witness ==
    /\ op.name = "reset"
    /\ op.found
    /\ MetaInt(meta.counter) > Max(AdminCounters)
    /\ \/ /\ op.type = "fetch_hero_stats"
          /\ players[op.id].hero_done
          /\ players[op.id].assigned_to = NULLTXT
          /\ meta.cursor = 0 - 1
       \/ /\ op.type = "discover_matches"
          /\ ~players[op.id].discover_done
          /\ players[op.id].hero_done
          /\ players[op.id].assigned_to = NULLTXT

\* C26: Seed(start, end) creates every missing account id of [start, end]
\* at depth 0, hero-incomplete, discovery-incomplete and unclaimed, leaves
\* every existing account and everything else unchanged, and a second run of
\* the same Seed changes nothing.
C26_SeedInsertIfAbsent ==
    [][op'.name = "seed" =>
        /\ \A i \in Ids :
              IF op'.start <= i /\ i <= op'.end /\ ~Exists(players, i)
              THEN /\ Exists(players', i)
                   /\ players'[i].depth = 0
                   /\ ~players'[i].hero_done
                   /\ ~players'[i].discover_done
                   /\ players'[i].assigned_to = NULLTXT
                   /\ players'[i].assigned_at = NULL
              ELSE players'[i] = players[i]
        /\ meta' = meta
        /\ seed_players(players', op'.start, op'.end) = players']_vars

\* A seed over a range that holds a claimed account, which kept its claim,
\* and an unclaimed depth-0 account without hero stats.
C26_Witness ==
    /\ op.name = "seed"
    /\ \E i, j \in Ids :
          /\ op.start <= i /\ i <= op.end
          /\ op.start <= j /\ j <= op.end
          /\ Exists(players, i) /\ players[i].assigned_to # NULLTXT
          /\ players[j] = SeedRow(0)
          /\ lowest[j] = 0

\* A discovery-due call on a store where no account awaits discovery,
\* whatever the claims: no account is hero-complete with its discovery open.
RestartDueCall ==
    /\ op'.name = "assign"
    /\ discovery_due(MetaInt(meta.counter) + 1)
    /\ \A i \in Ids : Exists(players, i) =>
          (~players[i].hero_done \/ players[i].discover_done)

\* C27: discovery restart: a discovery-due call that finds no discovery
\* candidate clears discover_done and resets seen_count of every account,
\* keeps depth 0 and nulls every other depth, and retries the claim: it
\* returns a discovery task when a hero-complete unclaimed account exists
\* after the restart.
C27_DiscoveryRestart ==
    [][RestartDueCall =>
        /\ \A i \in Ids : Exists(players, i) =>
              /\ ~players'[i].discover_done
              /\ players'[i].seen_count = 0
              /\ players'[i].depth = IF players[i].depth = 0 THEN 0 ELSE NULL
        /\ (\E i \in Ids : /\ Exists(players', i)
                           /\ players'[i].hero_done
                           /\ players'[i].assigned_to \in {NULLTXT, "discover"})
              => op'.task.type = "discover_matches"]_vars

\* What the package revision does instead: the call ends with an error and
\* is rolled back.
PkgRestartFails ==
    [][RestartDueCall => (op'.failed /\ players' = players /\ meta' = meta)]_vars

\* The restart statement of the web revision, applied to any store the web
\* revision reaches: it clears exactly the discovery claims.
WebRestartFrame ==
    \A i \in Ids : Exists(players, i) =>
        LET r == web_restart_discovery_cycle(players)[i] IN
        /\ r.assigned_to = IF players[i].assigned_to = "discover"
                            THEN NULLTXT ELSE players[i].assigned_to
        /\ r.assigned_at = IF players[i].assigned_to = "discover"
                            THEN NULL ELSE players[i].assigned_at
        /\ r.hero_done = players[i].hero_done
        /\ r.hero_refreshed_at = players[i].hero_refreshed_at

\* C38: compensation does not steal a newer claim: when the processing of
\* an acknowledged submission of account a fails and a has been claimed
\* again since the acknowledgement (the account still carries what the
\* acknowledgement stored, the refresh time of a hero submission or the
\* discovery flag of a discovery submission, and a claim the acknowledgement
\* had cleared), the failure handler leaves that claim in place.
C38_CompensationKeepsNewerClaim ==
    [][(/\ op'.name \in {"hero_job_failed", "discover_job_failed"}
        /\ Exists(players, op'.id)
        /\ players[op'.id].assigned_to # NULLTXT
        /\ \/ op'.name = "hero_job_failed"
                  /\ players[op'.id].hero_refreshed_at # NULL
           \/ op'.name = "discover_job_failed"
                  /\ players[op'.id].discover_done) =>
           /\ players'[op'.id].assigned_to = players[op'.id].assigned_to
           /\ players'[op'.id].assigned_at = players[op'.id].assigned_at]_vars

\* What the failure handlers do instead: whatever claim the account
\* carries, it is cleared.
CompensationClearsAnyClaim ==
    [][(op'.name \in {"hero_job_failed", "discover_job_failed"}
            /\ Exists(players, op'.id)) =>
           /\ players'[op'.id].assigned_to = NULLTXT
           /\ players'[op'.id].assigned_at = NULL]_vars

\* ===================================================================
\* Operations on account ids the store does not hold: reset_player_task
\* (tasks.py) and the /submit handler of the web revision (web/app.py), on
\* stores with absent accounts. For the web revision the variable
\* hero_top100 holds its table best (one row per hero).
\* ===================================================================

\* INSERT INTO best ... ON CONFLICT(hero_id) DO UPDATE ...
\* WHERE excluded.matches > best.matches
web_upsert_best(best, a, row) ==
    LET old == {b \in best : b.heroId = row.heroId}
    IN  IF old = {} THEN best \cup {StatRow(a, row.heroId, row.matches, row.wins)}
        ELSE IF \E b \in old : row.matches > b.matches
        THEN (best \ old) \cup {StatRow(a, row.heroId, row.matches, row.wins)}
        ELSE best

RECURSIVE web_upsert_best_rows(_, _, _)
web_upsert_best_rows(best, a, rows) ==
    IF rows = <<>> THEN best
    ELSE web_upsert_best_rows(web_upsert_best(best, a, Head(rows)), a, Tail(rows))

\* best_rows of the submit handler: the payload rows whose hero is in HEROES.
web_best_rows(payload) == SelectSeq(payload, LAMBDA row : row.heroId \in Heroes)

\* _process_hero_submission of the web revision, as [players, hero_stats,
\* best]; failed: a statement raised, the transaction is rolled back and
\* _unmark_hero_task runs.
web_process_hero_submission(tbl, stats, best, a, payload, t, failed) ==
    IF failed
    THEN [players |-> unmark_hero_task(tbl, a), hero_stats |-> stats, best |-> best]
    ELSE [players |-> [i \in DOMAIN tbl |->
                          IF i = a /\ Exists(tbl, i)
                          THEN [tbl[i] EXCEPT !.hero_done = TRUE,
                                              !.hero_refreshed_at = t]
                          ELSE tbl[i]],
          hero_stats |-> {r \in stats : r.steamAccountId # a}
                            \cup {StatRow(a, payload[k].heroId, payload[k].matches,
                                          payload[k].wins) : k \in DOMAIN payload},
          best |-> web_upsert_best_rows(best, a, web_best_rows(payload))]

\* Variant: a submit handler that creates the account it does not find.
web_submit_hero_creating(tbl, id) ==
    [tbl EXCEPT ![id] = IF Exists(tbl, id)
                        THEN [@ EXCEPT !.hero_done = TRUE, !.assigned_to = NULLTXT,
                                       !.assigned_at = NULL]
                        ELSE HeroDoneRow(0)]

\* UPDATE players SET hero_done=1, assigned_to=NULL, assigned_at=NULL
\* WHERE steamAccountId=?
web_submit_hero(tbl, id) ==
    [i \in DOMAIN tbl |->
        IF i = id /\ Exists(tbl, i)
        THEN [tbl[i] EXCEPT !.hero_done = TRUE, !.assigned_to = NULLTXT,
                            !.assigned_at = NULL]
        ELSE tbl[i]]

\* POST /submit with type fetch_hero_stats: update_count = 0 answers 404
\* before anything is handed to the background executor.
WebSubmitHero ==
    \E i \in Ids, payload \in AnyPayloads, request_new_task \in BOOLEAN :
        \E marked \in {web_submit_hero(players, i)} :
            IF ~Exists(players, i)
            THEN /\ players' = marked
                 /\ op' = [name |-> "submit_hero", id |-> i, status |-> 404]
                 /\ UNCHANGED <<meta, now, callVars, jobs, boardVars, schema,
                                lowest>>
            ELSE /\ Len(jobs) < MaxJobs
                 /\ request_new_task => WebTasksLeft
                 /\ jobs' = Append(jobs, [kind |-> "hero", id |-> i,
                                          payload |-> payload])
                 /\ \E r \in {IF request_new_task
                              THEN web_assign_next_task(marked, meta, now)
                              ELSE [players |-> marked, meta |-> meta,
                                    task |-> WebNoTask]} :
                        /\ players' = r.players
                        /\ meta' = r.meta
                        /\ op' = [name |-> "submit_hero", id |-> i,
                                  status |-> 200, task |-> r.task]
                 /\ UNCHANGED <<now, callVars, boardVars, schema, lowest>>

\* A worker of the background executor runs a queued hero job.
WebRunHeroJob ==
    \E k \in 1 .. Len(jobs), failed \in BOOLEAN :
        /\ k <= WEB_WORKERS
        /\ jobs[k].kind = "hero"
        /\ \E r \in {web_process_hero_submission(players, hero_stats, hero_top100,
                                                 jobs[k].id, jobs[k].payload, now,
                                                 failed)} :
              /\ players' = r.players
              /\ hero_stats' = r.hero_stats
              /\ hero_top100' = r.best
        /\ jobs' = RemoveAt(jobs, k)
        /\ op' = [name |-> "hero_job", id |-> jobs[k].id, failed |-> failed]
        /\ UNCHANGED <<meta, now, callVars, schema, lowest>>

\* POST /submit with type discover_matches for an account that is not in the
\* store.
WebSubmitDiscoverAbsent == WebSubmitDiscover /\ op'.status = 404

\* The highest account id is not in the store.
InitNotFound ==
    /\ players \in {f \in [Ids -> {NoRow, SeedRow(0), MarkedRow}] : f[MaxId] = NoRow}
    /\ meta = [counter |-> Min(WebCounterStarts), cursor |-> NULL,
               last_cleanup |-> NULL]
    /\ now = 0
    /\ txw = [c \in Calls |-> EmptyTx]
    /\ call = [c \in Calls |-> IdleCall]
    /\ jobs = <<>>
    /\ hero_stats = {}
    /\ hero_top100 = {}
    /\ schema = [seen_count |-> TRUE]
    /\ lowest = LowestOf(players)
    /\ op = NoOp

NextNotFound ==
    \/ ResetTask
    \/ WebSubmitHero
    \/ WebRunHeroJob
    \/ WebSubmitDiscoverAbsent

SpecNotFound == InitNotFound /\ [][NextNotFound]_vars

\* ------------------------------------------------ claims on SpecNotFound
\* An operation that reported not-found.
NotFoundStep ==
    \/ op'.name = "reset" /\ ~op'.found
    \/ op'.name \in {"submit_hero", "submit_discover"} /\ op'.status = 404

\* C24: not-found has no effect: a hero submission, a discovery submission
\* or a reset for an account id that is not in the store reports not-found
\* exactly then, and creates no row, queues no background job and changes no
\* row, no table and no scheduler metadata.
C24_NotFoundNoEffect ==
    [][/\ NotFoundStep =>
            /\ players' = players
            /\ meta' = meta
            /\ jobs' = jobs
            /\ hero_stats' = hero_stats
            /\ hero_top100' = hero_top100
       /\ op'.name = "reset" => (op'.found <=> Exists(players, op'.id))
       /\ op'.name = "submit_hero" =>
            (op'.status = 404 <=> ~Exists(players, op'.id))
       /\ op'.name = "submit_discover" => op'.status = 404]_vars

\* A reset or a hero submission has reported not-found while the store holds
\* another account, a job is queued and a task was handed out.
C24_Witness ==
    /\ \/ op.name = "reset" /\ ~op.found
       \/ op.name = "submit_hero" /\ op.status = 404
    /\ \E i \in Ids : Exists(players, i)
    /\ \E i \in Ids : ~Exists(players, i)
    /\ jobs # <<>>
    /\ MetaInt(meta.counter) > Min(WebCounterStarts)

\* ===================================================================
\* Package revision: the order of discovery claims. Stores of seven
\* accounts at depth 0, depth 1 and unknown depth, some of them without
\* hero stats; account 0 is absent or awaits discovery.
\* ===================================================================
\* A hero-complete account of unknown depth.
NullDepthRow == [HeroDoneRow(0) EXCEPT !.depth = NULL]

BfsRows == {SeedRow(0), HeroDoneRow(0), HeroDoneRow(1), NullDepthRow}

InitBfs ==
    /\ players \in {f \in [Accounts -> BfsRows \cup {NoRow}] :
                       /\ f[0] \in {NoRow, HeroDoneRow(0)}
                       /\ \A i \in Accounts \ {0} : f[i] # NoRow}
    /\ meta = [counter |-> NULL, cursor |-> NULL, last_cleanup |-> NULL]
    /\ now = 1
    /\ txw = [c \in Calls |-> EmptyTx]
    /\ call = [c \in Calls |-> IdleCall]
    /\ jobs = <<>>
    /\ hero_stats = {}
    /\ hero_top100 = {}
    /\ schema = [seen_count |-> TRUE]
    /\ lowest = LowestOf(players)
    /\ op = NoOp

NextBfs == AssignSome

SpecBfs == InitBfs /\ [][NextBfs]_vars

\* ------------------------------------------------ claims on SpecBfs
\* The accounts of a store that await discovery and are unclaimed.
Eligible(tbl) ==
    {i \in Accounts : /\ Exists(tbl, i)
                      /\ tbl[i].hero_done
                      /\ ~tbl[i].discover_done
                      /\ tbl[i].assigned_to = NULLTXT}

\* (depth asc, account id asc), an unknown depth last.
BfsBefore(tbl, j, i) ==
    \/ tbl[j].depth # NULL /\ tbl[i].depth = NULL
    \/ tbl[j].depth # NULL /\ tbl[i].depth # NULL /\ tbl[j].depth < tbl[i].depth
    \/ tbl[j].depth = tbl[i].depth /\ j < i

\* The first MAX_DISCOVERY_TASK_SIZE eligible accounts in that order.
BfsBatch(tbl) ==
    {i \in Eligible(tbl) :
        Cardinality({j \in Eligible(tbl) : BfsBefore(tbl, j, i)})
            < MAX_DISCOVERY_TASK_SIZE}

DiscoveryTaskStep == op'.name = "assign" /\ op'.task.type = "discover_matches"

SeenEntries == {[id |-> i, count |-> c] : i \in 0 .. MaxId,
                                          c \in {NULL, 0, MaxCount}}
SeenPayloads == UNION {[1 .. n -> SeenEntries] : n \in 0 .. MaxEntries}

\* _iter_discovered_counts: the (id, count) pairs of the entries, a plain id
\* counting 1; ids <= 0 and counts <= 0 are dropped.
iter_discovered_counts(values) ==
    LET counted == [k \in DOMAIN values |->
                       [id |-> values[k].id,
                        count |-> IF values[k].count = NULL THEN 1
                                  ELSE values[k].count]]
    IN  SelectSeq(counted, LAMBDA e : e.id > 0 /\ e.count > 0)

\* The dictionary pending of _iter_discovered_child_rows after the pairs of
\* the sequence: the parent is skipped, the counts of an id are added up.
RECURSIVE pending_totals(_, _, _)
pending_totals(pairs, parent_id, pending) ==
    IF pairs = <<>> THEN pending
    ELSE LET e == Head(pairs)
             existing == IF e.id \in DOMAIN pending THEN pending[e.id] ELSE NULL
             next == IF e.id = parent_id THEN pending
                     ELSE [i \in DOMAIN pending \cup {e.id} |->
                              IF i # e.id THEN pending[i]
                              ELSE IF existing = NULL THEN e.count
                              ELSE existing + e.count]
         IN  pending_totals(Tail(pairs), parent_id, next)

\* _iter_discovered_child_rows: child id -> total. The distinct children of a
\* submission of the model fit in one batch (_DISCOVERY_BATCH_SIZE = 500).
iter_discovered_child_rows(values, parent_id) ==
    pending_totals(iter_discovered_counts(values), parent_id, [i \in {} |-> 0])

\* Variant: an upsert that stores the reported count over the stored one.
upsert_child_rows_overwriting(tbl, totals, next_depth) ==
    [i \in DOMAIN tbl |->
        IF i \notin DOMAIN totals THEN tbl[i]
        ELSE IF ~Exists(tbl, i)
        THEN [SeedRow(next_depth) EXCEPT !.seen_count = totals[i]]
        ELSE IF ~tbl[i].discover_done \/ next_depth < tbl[i].depth
        THEN [tbl[i] EXCEPT
                !.depth = IF next_depth < @ THEN next_depth ELSE @,
                !.seen_count = IF ~tbl[i].discover_done THEN totals[i] ELSE @]
        ELSE tbl[i]]

\* INSERT INTO players (..., seen_count) VALUES (id, next_depth, FALSE, FALSE,
\* total) ON CONFLICT DO UPDATE SET depth = LEAST(...), seen_count = CASE WHEN
\* players.discover_done = FALSE THEN players.seen_count + excluded.seen_count
\* ELSE players.seen_count END
\* WHERE players.discover_done = FALSE OR excluded.depth < players.depth
upsert_child_rows(tbl, totals, next_depth) ==
    [i \in DOMAIN tbl |->
        IF i \notin DOMAIN totals THEN tbl[i]
        ELSE IF ~Exists(tbl, i)
        THEN [SeedRow(next_depth) EXCEPT !.seen_count = totals[i]]
        ELSE IF ~tbl[i].discover_done \/ next_depth < tbl[i].depth
        THEN [tbl[i] EXCEPT
                !.depth = IF next_depth < @ THEN next_depth ELSE @,
                !.seen_count = IF ~tbl[i].discover_done THEN @ + totals[i] ELSE @]
        ELSE tbl[i]]

\* The worker runs process_discover_submission for a submission of parent
\* id with an explicit next depth: the children are upserted and committed,
\* then the hero cursor is reset.
ProcessDiscoverCounts ==
    \E id \in Ids, values \in SeenPayloads, next_depth \in 1 .. MaxDepth :
        /\ \A j \in Ids : Exists(players, j) => players[j].seen_count < MaxSeen
        /\ players' = upsert_child_rows(
                          players, iter_discovered_child_rows(values, id), next_depth)
        /\ meta' = [meta EXCEPT !.cursor = IF @ = NULL THEN NULL ELSE 0 - 1]
        /\ lowest' = LowerTo(lowest,
                             DOMAIN iter_discovered_child_rows(values, id),
                             next_depth)
        /\ op' = [name |-> "discover_counts", id |-> id, values |-> values,
                  next_depth |-> next_depth]
        /\ UNCHANGED <<now, callVars, jobs, boardVars, schema>>

InitSeen ==
    /\ players \in [Ids -> {NoRow, SeedRow(1), DiscoverDoneRow(1), DiscoverDoneRow(2)}]
    /\ meta = [counter |-> NULL, cursor |-> NULL, last_cleanup |-> NULL]
    /\ now = 0
    /\ txw = [c \in Calls |-> EmptyTx]
    /\ call = [c \in Calls |-> IdleCall]
    /\ jobs = <<>>
    /\ hero_stats = {}
    /\ hero_top100 = {}
    /\ schema = [seen_count |-> TRUE]
    /\ lowest = LowestOf(players)
    /\ op = NoOp

NextSeen == ProcessDiscoverCounts

SpecSeen == InitSeen /\ [][NextSeen]_vars

\* ------------------------------------------------ claims on SpecSeen
\* The weight of one entry: 1 for a plain id, its count for an object, and
\* nothing for a count that is not positive.
EntryWeight(e) == IF e.count = NULL THEN 1 ELSE IF e.count > 0 THEN e.count ELSE 0

\* The total weight with which a submission reports account i.
RECURSIVE OccurrenceWeight(_, _)
OccurrenceWeight(values, i) ==
    IF values = <<>> THEN 0
    ELSE (IF Head(values).id = i THEN EntryWeight(Head(values)) ELSE 0)
            + OccurrenceWeight(Tail(values), i)

DepthHints ==
    {[tag |-> "none", n |-> 0], [tag |-> "junk", n |-> 0]}
        \cup [tag : {"int", "text"}, n : 0 .. MaxDepth]

\* int() applied to a hint, with 0 where it raises.
coerce_optional_int_defaulting(h) ==
    IF h.tag = "none" THEN NULL
    ELSE IF h.tag \in {"int", "text"} THEN h.n
    ELSE 0

\* _coerce_optional_int: None stays None, an int is returned, anything else
\* goes through int(), and a TypeError or ValueError gives None.
coerce_optional_int(h) ==
    IF h.tag = "none" THEN NULL
    ELSE IF h.tag = "int" THEN h.n
    ELSE IF h.tag = "text" THEN h.n
    ELSE NULL

\* The depth resolution of both revisions for one submission of parent id:
\* process_discover_submission coerces its three hints and calls
\* _resolve_next_depth; the /submit handler of the web revision parses
\* nextDepth and depth and reads the stored depth of the parent.
ResolveDepth ==
    \E id \in Ids, provided_next_depth \in DepthHints,
       provided_depth \in DepthHints, assignment_depth \in DepthHints :
        /\ op' = [name |-> "resolve_depth", id |-> id,
                  nextDepth |-> provided_next_depth,
                  depth |-> provided_depth,
                  assignment_depth |-> assignment_depth,
                  pkg |-> resolve_next_depth(
                              coerce_optional_int(provided_next_depth),
                              coerce_optional_int(provided_depth),
                              coerce_optional_int(assignment_depth)),
                  web |-> web_next_depth(
                              coerce_optional_int(provided_next_depth),
                              coerce_optional_int(provided_depth),
                              players, id)]
        /\ UNCHANGED <<players, meta, now, callVars, jobs, boardVars, schema,
                       lowest>>

InitDepth ==
    /\ players \in {f \in [Ids -> {NoRow, SeedRow(0), NullDepthRow,
                                   DiscoverDoneRow(1)}] : f[MaxId] = NoRow}
    /\ meta = [counter |-> NULL, cursor |-> NULL, last_cleanup |-> NULL]
    /\ now = 0
    /\ txw = [c \in Calls |-> EmptyTx]
    /\ call = [c \in Calls |-> IdleCall]
    /\ jobs = <<>>
    /\ hero_stats = {}
    /\ hero_top100 = {}
    /\ schema = [seen_count |-> TRUE]
    /\ lowest = LowestOf(players)
    /\ op = NoOp

NextDepth == ResolveDepth

SpecDepth == InitDepth /\ [][NextDepth]_vars

\* ------------------------------------------------ claims on SpecDepth
\* A hint counts when it is there and parses as an integer.
Parses(h) == h.tag \in {"int", "text"}

\* The resolution the specification describes, over the raw hints and the
\* depth known for the parent (NULL when unknown).
ExpectedNextDepth(next_hint, depth_hint, parent_depth) ==
    IF Parses(next_hint) THEN next_hint.n
    ELSE IF Parses(depth_hint) THEN depth_hint.n + 1
    ELSE IF parent_depth # NULL THEN parent_depth + 1
    ELSE 1

\* C31: the depth given to discovered children is the explicit nextDepth
\* hint when it is supplied and parses, otherwise the supplied depth plus
\* one, otherwise the depth known for the parent plus one (the depth the
\* caller passes in the package revision, the stored depth of the parent row
\* in the web revision), otherwise 1; a hint that does not parse counts as
\* absent.
C31_NextDepthResolution ==
    op.name = "resolve_depth" =>
        /\ op.pkg = ExpectedNextDepth(
                        op.nextDepth, op.depth,
                        IF Parses(op.assignment_depth)
                        THEN op.assignment_depth.n ELSE NULL)
        /\ op.web = ExpectedNextDepth(
                        op.nextDepth, op.depth,
                        IF Exists(players, op.id)
                        THEN players[op.id].depth ELSE NULL)

\* An unparsable nextDepth next to a depth sent as a string: both revisions
\* resolve the depth hint plus one, which differs from the stored depth
\* plus one.
C31_Witness ==
    /\ op.name = "resolve_depth"
    /\ op.nextDepth.tag = "junk"
    /\ op.depth = [tag |-> "text", n |-> 2]
    /\ op.assignment_depth = [tag |-> "int", n |-> 0]
    /\ Exists(players, op.id)
    /\ players[op.id].depth = 1
    /\ op.pkg = 3
    /\ op.web = 3

\* ===================================================================
\* SpecGuard: rounds of the reclaimer of several processes on one store,
\* statement by statement: the read of the last-run timestamp, then the
\* release and the write of the new timestamp, committed together.
\* ===================================================================

\* A value of the last_assignment_cleanup key that datetime.fromisoformat
\* rejects.
BadStamp == NULL - 1

\* The guard of maybe_run_assignment_cleanup that passes only a missing row.
cleanup_due_parsed_only(last_cleanup_row, t) ==
    \/ last_cleanup_row = NULL
    \/ /\ last_cleanup_row # BadStamp
       /\ ~(t - last_cleanup_row < ASSIGNMENT_CLEANUP_INTERVAL)

\* The guard of maybe_run_assignment_cleanup: no row, a value that does not
\* parse, or not (now - last_cleanup < ASSIGNMENT_CLEANUP_INTERVAL).
cleanup_due(last_cleanup_row, t) ==
    \/ last_cleanup_row = NULL
    \/ last_cleanup_row = BadStamp
    \/ ~(t - last_cleanup_row < ASSIGNMENT_CLEANUP_INTERVAL)

\* A round of process c takes the time and reads the timestamp; when the
\* interval has not elapsed it returns False at once.
CleanupRead(c) ==
    /\ call[c].pc = "idle"
    /\ IF cleanup_due(meta.last_cleanup, now)
       THEN /\ call' = [call EXCEPT ![c] = [pc |-> "cleanup", started |-> now,
                                            last_cleanup_row |-> meta.last_cleanup]]
            /\ op' = [name |-> "cleanup_read", by |-> c]
       ELSE /\ op' = [name |-> "cleanup_not_due", by |-> c]
            /\ UNCHANGED call
    /\ UNCHANGED <<players, meta, now, txw, jobs, boardVars, schema, lowest>>

\* The round of process c releases the stale claims, upserts the time it
\* took at its start, returns True and its connection commits.
CleanupWrite(c) ==
    /\ call[c].pc = "cleanup"
    /\ players' = release_incomplete_assignments(
                      players, MAX_AGE_MINUTES, call[c].started)
    /\ meta' = [meta EXCEPT !.last_cleanup = call[c].started]
    /\ call' = [call EXCEPT ![c] = IdleCall]
    /\ op' = [name |-> "cleanup_pass", by |-> c, started |-> call[c].started,
              last_cleanup_row |-> call[c].last_cleanup_row,
              released |-> ReleasedBy(players, players')]
    /\ UNCHANGED <<now, txw, jobs, boardVars, schema, lowest>>

\* An account claimed for hero statistics at time t.
ClaimedAt(t) == [SeedRow(0) EXCEPT !.assigned_to = "hero", !.assigned_at = t]

InitGuard ==
    /\ now = MAX_AGE_MINUTES
    /\ players \in [Ids -> {SeedRow(0), ClaimedAt(0), ClaimedAt(1)}]
    /\ meta \in [counter : {NULL}, cursor : {NULL},
                 last_cleanup : {NULL, BadStamp, now - 1, now}]
    /\ txw = [c \in Calls |-> EmptyTx]
    /\ call = [c \in Calls |-> IdleCall]
    /\ jobs = <<>>
    /\ hero_stats = {}
    /\ hero_top100 = {}
    /\ schema = [seen_count |-> TRUE]
    /\ lowest = LowestOf(players)
    /\ op = NoOp

NextGuard ==
    \/ Tick
    \/ \E c \in Calls : CleanupRead(c)
    \/ \E c \in Calls : CleanupWrite(c)

SpecGuard == InitGuard /\ [][NextGuard]_vars

\* ------------------------------------------------ claims on SpecGuard
\* The stored timestamp is one a pass has written.
Stamped(v) == v # NULL /\ v # BadStamp

\* C32 as stated: whenever a pass releases and stores its time while the
\* store holds the time of an earlier pass, the two times are at least
\* ASSIGNMENT_CLEANUP_INTERVAL apart.
C32_PassesIntervalApart ==
    [][(op'.name = "cleanup_pass" /\ Stamped(meta.last_cleanup)) =>
           op'.started - meta.last_cleanup >= ASSIGNMENT_CLEANUP_INTERVAL]_vars

\* C32, amended: a round returns False and changes nothing exactly when the
\* timestamp it reads parses and is less than the interval before its own
\* time; otherwise it releases the claims stale at its time and stores that
\* time. A pass is at least one interval after the pass whose time it read;
\* it is at least one interval after the latest stored pass when no other
\* pass has committed since it read.
C32_GuardedPass ==
    [][/\ op'.name = "cleanup_not_due" =>
            /\ Stamped(meta.last_cleanup)
            /\ now - meta.last_cleanup < ASSIGNMENT_CLEANUP_INTERVAL
            /\ UNCHANGED <<players, meta>>
       /\ op'.name = "cleanup_read" =>
            /\ Stamped(meta.last_cleanup) =>
                   now - meta.last_cleanup >= ASSIGNMENT_CLEANUP_INTERVAL
            /\ UNCHANGED <<players, meta>>
       /\ op'.name = "cleanup_pass" =>
            /\ players' = [i \in Ids |->
                  IF Stale(players[i], MAX_AGE_MINUTES, op'.started)
                  THEN [players[i] EXCEPT !.assigned_to = NULLTXT,
                                          !.assigned_at = NULL]
                  ELSE players[i]]
            /\ meta' = [meta EXCEPT !.last_cleanup = op'.started]
            /\ Stamped(op'.last_cleanup_row) =>
                   op'.started - op'.last_cleanup_row
                       >= ASSIGNMENT_CLEANUP_INTERVAL
            /\ (Stamped(meta.last_cleanup)
                   /\ meta.last_cleanup = op'.last_cleanup_row) =>
                   op'.started - meta.last_cleanup
                       >= ASSIGNMENT_CLEANUP_INTERVAL]_vars

\* A pass that read the time of an earlier pass, ran one interval later and
\* released a claim that had become stale by then.
C32_Witness ==
    /\ op.name = "cleanup_pass"
    /\ Stamped(op.last_cleanup_row)
    /\ op.started = op.last_cleanup_row + ASSIGNMENT_CLEANUP_INTERVAL
    /\ op.released # {}
    /\ meta.last_cleanup = op.started

\* ===================================================================
\* SpecStarve: whole RequestTask calls, one after the other, around a
\* refresh-due and a discovery-due counter value, on stores that hold
\* account 0 next to ordinary accounts.
\* ===================================================================

StarveAccounts == 0 .. MaxId

\* The counter before the calls: refresh is due on 198, discovery on 199.
StarveCounters == {196, 197, 198}

\* hero_assignment_cursor: absent, '-1' as a reset or a processed discovery
\* submission leaves it, or left at account 1 by an earlier claim.
StarveCursors == {NULL, 0 - 1, 1}

InitStarve ==
    /\ now = MAX_AGE_MINUTES
    /\ players \in {f \in [StarveAccounts -> {SeedRow(0), HeroDoneRow(0),
                                              DiscoverDoneRow(1), ClaimedAt(0)}] :
                       f[0] \in {SeedRow(0), HeroDoneRow(0)}}
    /\ meta \in [counter : StarveCounters, cursor : StarveCursors,
                 last_cleanup : {NULL}]
    /\ txw = [c \in Calls |-> EmptyTx]
    /\ call = [c \in Calls |-> IdleCall]
    /\ jobs = <<>>
    /\ hero_stats = {}
    /\ hero_top100 = {}
    /\ schema = [seen_count |-> TRUE]
    /\ lowest = LowestOf(players)
    /\ op = NoOp

NextStarve == AdminAssign \/ Release

SpecStarve == InitStarve /\ [][NextStarve]_vars

\* ------------------------------------------------ claims on SpecStarve
\* The unclaimed accounts of the store whose hero statistics are incomplete.
HeroWaiting(tbl) ==
    {i \in DOMAIN tbl : /\ Exists(tbl, i)
                        /\ ~tbl[i].hero_done
                        /\ tbl[i].assigned_to = NULLTXT}

\* The call starts on a counter value on which the discovery interval fires.
IntervalCall == (MetaInt(meta.counter) + 1) % DISCOVERY_INTERVAL = 0

SeenByCall ==
    [i \in DOMAIN players |->
        IF meta'.last_cleanup # meta.last_cleanup
              /\ Stale(players[i], MAX_AGE_MINUTES, now)
        THEN [players[i] EXCEPT !.assigned_to = NULLTXT, !.assigned_at = NULL]
        ELSE players[i]]

\* The first MAX_HERO_TASK_SIZE ids of a set, ascending.
LowestIds(pool) ==
    {i \in pool : Cardinality({j \in pool : j < i}) < MAX_HERO_TASK_SIZE}

C36_RefreshClaimFrame ==
    [][(op'.name = "assign" /\ op'.task.via = "refresh" /\ RefreshDueCall) =>
        \A i \in DOMAIN players :
            IF i \in op'.task.ids
            THEN /\ SeenByCall[i].hero_done
                 /\ SeenByCall[i].assigned_to = NULLTXT
                 /\ ~players'[i].hero_done
                 /\ players'[i].assigned_to = "hero"
                 /\ players'[i].assigned_at = now
                 /\ players'[i].discover_done = players[i].discover_done
                 /\ players'[i].depth = players[i].depth
                 /\ players'[i].seen_count = players[i].seen_count
                 /\ players'[i].hero_refreshed_at = players[i].hero_refreshed_at
                 /\ players'[i].highest_match_id = players[i].highest_match_id
                 /\ players'[i].full_write_done = players[i].full_write_done
            ELSE players'[i] = SeenByCall[i]]_vars

\* A refresh claim has taken a discovery-complete account of depth 1 and
\* left its discovery flag, depth and refresh time in place, next to an
\* account it did not touch.
C36_Witness ==
    /\ op.name = "assign"
    /\ op.task.via = "refresh"
    /\ refresh_due(MetaInt(meta.counter))
    /\ \E i \in op.task.ids :
           /\ players[i].discover_done
           /\ players[i].depth = 1
           /\ players[i].hero_refreshed_at = 0
           /\ ~players[i].hero_done
           /\ players[i].assigned_to = "hero"
    /\ \E j \in DOMAIN players \ op.task.ids : players[j] = SeedRow(0)

\* A call whose first attempt is a discovery attempt that finds no candidate:
\* the call that restarts the discovery cycle.
RestartingCall ==
    /\ op'.name = "assign"
    /\ discovery_due(MetaInt(meta.counter) + 1)
    /\ ~discovery_backlog_exceeded(SeenByCall)
    /\ DiscoveryCandidates(SeenByCall, {}) = {}

\* C39: a discovery restart releases discovery claims only: a call that
\* restarts the discovery cycle leaves no account claimed for discovery
\* except the accounts of the task it returns, and leaves every hero claim,
\* hero_done and hero_refreshed_at as they were.
C39_RestartReleasesDiscoverClaims ==
    [][RestartingCall =>
        \A i \in StarveAccounts : Exists(players, i) =>
            /\ (SeenByCall[i].assigned_to = "discover" /\ i \notin op'.task.ids)
                  => /\ players'[i].assigned_to = NULLTXT
                     /\ players'[i].assigned_at = NULL
            /\ SeenByCall[i].assigned_to = "hero"
                  => /\ players'[i].assigned_to = "hero"
                     /\ players'[i].assigned_at = players[i].assigned_at
            /\ players'[i].hero_done = players[i].hero_done
            /\ players'[i].hero_refreshed_at = players[i].hero_refreshed_at]_vars

\* What the package revision does on such a call: it ends with an error and
\* every claim, of either kind, stays.
RestartKeepsEveryClaim ==
    [][RestartingCall => (op'.failed /\ players' = players)]_vars

\* A restarting call with an account claimed for discovery.
RestartWithDiscoverClaim ==
    /\ op.name = "assign" /\ op.failed
    /\ \E i \in StarveAccounts : /\ Exists(players, i)
                                 /\ players[i].assigned_to = "discover"

\* ------------------------------------------------------------------------
\* Package revision: the discovery throttle
\* ------------------------------------------------------------------------
\* A store with DISCOVERY_BACKLOG_LIMIT accounts whose discovery was
\* acknowledged and whose full write is awaited, next to the accounts of Ids,
\* which may add to them; two calls run statement by statement.

\* An account whose discovery submission was acknowledged with a highest match
\* id and whose full write has not been done.
BacklogRow ==
    [HeroDoneRow(1) EXCEPT !.discover_done = TRUE, !.highest_match_id = 1]

BacklogIds == (MaxId + 1) .. (MaxId + DISCOVERY_BACKLOG_LIMIT)
ThrottleCalls == 1 .. 2
\* Counter values just before 1989 (not due), 1990 (discovery-due) and 1991
\* (refresh-due), so that a throttled call ends within three iterations.
ThrottleCounters == {1988, 1989}

ThrottleRows == {SeedRow(0), HeroDoneRow(0), DiscoverDoneRow(1), BacklogRow}

InitThrottle ==
    /\ players \in {[i \in Ids \cup BacklogIds |->
                        IF i \in Ids THEN f[i] ELSE BacklogRow] :
                        f \in [Ids -> ThrottleRows]}
    /\ meta \in {[counter |-> n, cursor |-> NULL, last_cleanup |-> NULL] :
                    n \in ThrottleCounters}
    /\ now = 1
    /\ txw = [c \in Calls |-> EmptyTx]
    /\ call = [c \in Calls |-> IdleCall]
    /\ jobs = <<>>
    /\ hero_stats = {}
    /\ hero_top100 = {}
    /\ schema = [seen_count |-> TRUE]
    /\ lowest = LowestOf(players)
    /\ op = NoOp

NextThrottle ==
    \E c \in ThrottleCalls :
        \/ Start(c)
        \/ DiscoveryDue(c)
        \/ Refresh(c)
        \/ HeroRead(c)
        \/ HeroTry(c)
        \/ HeroPending(c)
        \/ Fallback(c)
        \/ Finish(c)
        \/ TransientError(c)

SpecThrottle == InitThrottle /\ [][NextThrottle]_vars

\* ------------------------------------------------ claims on SpecThrottle
\* The accounts the throttle counts.
Backlog(tbl) ==
    {i \in DOMAIN tbl : /\ Exists(tbl, i)
                        /\ tbl[i].discover_done
                        /\ ~tbl[i].full_write_done
                        /\ tbl[i].highest_match_id # NULL}

\* C40: discovery throttle: a discovery attempt, interval-due or fallback,
\* made while more than 100 accounts are discovery-complete with the full
\* write awaited and a highest match id, claims no account, yields no
\* discover_matches task and changes no account row.
C40_ThrottledDiscoveryClaimsNothing ==
    [][\A c \in Calls :
          (/\ call[c].pc \in {"discovery", "fallback"}
           /\ Cardinality(Backlog(View(c))) > 100
           /\ call'[c] # call[c])
          => /\ call'[c].task = NoTask
             /\ call'[c].pc # "finish"
             /\ txw' = txw
             /\ players' = players]_vars

\* A call that has passed the value 1989, on which only the fallback was left,
\* and the discovery-due value 1990, with more than 100 awaited full writes
\* and nothing claimed by anyone.
C40_Witness ==
    \E c \in Calls :
        /\ call[c].loop_count = 1990
        /\ call[c].task = NoTask
        /\ meta.counter = 1988
        /\ Cardinality(Backlog(players)) > 100
        /\ \A d \in Calls : txw[d] = EmptyTx
        /\ \A i \in Ids : players[i].hero_done

\* With exactly 100 awaited full writes the discovery-due call claims.
UnthrottledAtLimit ==
    \E c \in Calls :
        /\ call[c].pc = "finish"
        /\ call[c].task.type = "discover_matches"
        /\ Cardinality(Backlog(View(c))) = 100

====
